---- MODULE Spec2Model ----
(***************************************************************************)
(* Process-monitoring correlation engine of xnumon (procmon.c).            *)
(*                                                                         *)
(* The heap of image_exec_t objects, the pre-exec queue (prepq), the       *)
(* process table and the worker/log pipeline are the state; every handler  *)
(* of procmon.c is one action.  Handlers are written as operators from a   *)
(* machine record m (the fields of which are the variables below) to the   *)
(* set of machine records the handler can end in: the choices inside a     *)
(* handler are what the operating system answers (open, stat, pid probes), *)
(* whether an allocation fails, and what a read of freed memory yields.    *)
(***************************************************************************)
EXTENDS Integers, Sequences, FiniteSets, TLC

VARIABLES
    img,              \* heap: image slot -> image_exec_t (refs = 0: not allocated)
    pqlist,           \* prepq: sequence of image slots, head first
    pqsize,           \* procmon.c:47
    pqlookup,         \* procmon.c:48
    pqmiss,           \* procmon.c:49
    pqdrop,           \* procmon.c:50
    pqskip,           \* procmon.c:51
    miss_execsubj,    \* procmon.c:57
    miss_execinterp,  \* procmon.c:58
    proctab,          \* pid -> proc_t (present = FALSE: no entry)
    handles,          \* image slot -> references handed out by image_exec_by_pid
    config,           \* TRUE between procmon_init and procmon_fini
    crashed,          \* "none", or the assertion / fault that ended the daemon
    appended,         \* history: image slot -> times put on the prepq in this life
    unlinked,         \* history: image slot -> times taken off the prepq in this life
    pqseen,           \* history: image slot -> lookups begun while it was on the prepq
    ostree,           \* the operating system: pid -> the parent pids sys_pidbsdinfo can report
    thr,              \* the threads inside the prepq calls and the work function
    last,             \* history: what the last handler did
    steps             \* history: number of handlers run so far

vars == <<img, pqlist, pqsize, pqlookup, pqmiss, pqdrop, pqskip, miss_execsubj,
          miss_execinterp, proctab, handles, config, crashed, appended, unlinked, pqseen,
          ostree, thr, last, steps>>

(***************************************************************************)
(* Bounds of the model.                                                    *)
(***************************************************************************)
MaxImages == 4
MaxPid == 2
MaxSteps == 4

\* procmon.h is not among the sources; the specification gives "about 16".
\* The model ages entries over fewer lookups so that eviction is reached.
MAXPQTTL == 2

\* config->ancestors (finite, so that image_exec_work prunes)
ancestors == 1

ImgIds == 1..MaxImages
Pids == 1..MaxPid
NoImage == 0
NULL == "NULL"

(***************************************************************************)
(* Files and paths.                                                        *)
(***************************************************************************)
Paths == {"/bin/sh", "/tmp/sh", "/tmp/x"}
Cwds == {"/", "/tmp"}

\* sys_basenamecmp compares the last path components
Basename(p) == CASE p = "/bin/sh" -> "sh"
                 [] p = "/tmp/sh" -> "sh"
                 [] p = "/tmp/x" -> "x"
                 [] OTHER -> p

sys_basenamecmp(p, q) == IF Basename(p) = Basename(q) THEN 0 ELSE 1

\* 8 MiB, in MiB
LargeFile == 8

\* what open + fstat + pread can find behind a path: nothing
\* (open fails), a file that cannot be stat'ed, or a file
NoFile == [ino |-> 0, size |-> 0, mtime |-> 0, ctime |-> 0, btime |-> 0, sheb |-> FALSE]
BadFile == [ino |-> -1, size |-> 0, mtime |-> 0, ctime |-> 0, btime |-> 0, sheb |-> FALSE]
Binary == [ino |-> 1, size |-> 1, mtime |-> 0, ctime |-> 0, btime |-> 0, sheb |-> FALSE]
Script == [ino |-> 2, size |-> 1, mtime |-> 0, ctime |-> 0, btime |-> 0, sheb |-> TRUE]

\* the disk during the modelled run: /bin/sh is a binary, /tmp/x a script
\* that starts with #!, /tmp/sh cannot be opened
Disk(path) == CASE path = "/bin/sh" -> {Binary}
                [] path = "/tmp/x" -> {Script}
                [] OTHER -> {NoFile}

\* audit_attr_t of the audit record (dev and ino as one number), or none
NoAttr == 0
Attrs == {1, 2}

\* argv of the audit record when it has none
NoArgv == <<>>

(***************************************************************************)
(* image_exec_t                                                            *)
(***************************************************************************)
NoStat == [ino |-> 0, size |-> 0, mtime |-> 0, ctime |-> 0, btime |-> 0]

\* sys_fdattr / sys_pathattr of file f (dev and ino as one number)
FileStat(f) == [ino |-> f.ino, size |-> f.size, mtime |-> f.mtime, ctime |-> f.ctime,
                btime |-> f.btime]

\* fd: -1 closed, 1 open.  hashes: NULL, or where the digests in the buffer
\* come from ("cache", "file").  codesign: NULL or the signing identifier of a good
\* signature.  wk: "none", "queued" (work_submit done, the worker and log
\* pipeline hold a reference), "done" (image_exec_work has run and the
\* pipeline has released its reference).
FreeImage == [refs |-> 0, path |-> NULL, fd |-> -1, stat |-> NoStat, flags |-> {},
              hashes |-> NULL, codesign |-> NULL, pid |-> 0, prev |-> NoImage,
              script |-> NoImage, pqttl |-> 0, wk |-> "none"]

Live(im, i) == i # NoImage /\ im[i].refs > 0

FreeSlots(im) == {i \in ImgIds : im[i].refs = 0}

\* the slot malloc hands out
Malloc(im) == CHOOSE i \in FreeSlots(im) : \A j \in FreeSlots(im) : i <= j

image_exec_new(im, i, path) == [im EXCEPT ![i] = [FreeImage EXCEPT !.refs = 1, !.path = path]]

\* refs-- on memory that is already free: the slot is poisoned (refs = -1)
RECURSIVE image_exec_free(_, _)
image_exec_free(im, i) ==
    IF im[i].refs <= 0 THEN [im EXCEPT ![i].refs = -1]
    ELSE IF im[i].refs > 1 THEN [im EXCEPT ![i].refs = @ - 1]
    ELSE LET s == im[i].script
             p == im[i].prev
             im0 == [im EXCEPT ![i].refs = 0]
             im1 == IF s # NoImage THEN image_exec_free(im0, s) ELSE im0
             im2 == IF p # NoImage THEN image_exec_free(im1, p) ELSE im1
         IN [im2 EXCEPT ![i] = IF im2[i].refs = 0 THEN FreeImage ELSE im2[i]]

\* a reference taken without counting it
image_exec_ref_uncounted(im, i) == im

image_exec_ref(im, i) == [im EXCEPT ![i].refs = @ + 1]

(***************************************************************************)
(* Configuration (config_t) of the modelled run.                           *)
(***************************************************************************)
KEXTLEVEL_HASH == 2
KEXTLEVEL_CSIG == 3
kextlevel == KEXTLEVEL_HASH
codesign_enabled == TRUE
suppress_image_exec_at_start == FALSE
suppress_image_exec_by_ident == {}
suppress_image_exec_by_path == {}
suppress_image_exec_by_ancestor_ident == {}
suppress_image_exec_by_ancestor_path == {"/tmp/sh"}

(***************************************************************************)
(* image_exec_open: e is the image, attr the audit attributes (or NoAttr), *)
(* f what is behind e.path at this moment.                                 *)
(***************************************************************************)
\* line 236 without the copies of lines 231-235
OpenFallbackFlagOnly(e, attr) == [e EXCEPT !.flags = @ \cup {"ATTR"}]

\* lines 230-237: mode, uid, gid, dev and ino (one number in the model) are
\* taken from attr, the other fields of stat stay as they are
OpenFallback(e, attr) == [e EXCEPT !.stat.ino = attr, !.flags = @ \cup {"ATTR"}]

image_exec_open(e, attr, f) ==
    IF e.flags \cap {"STAT", "ATTR"} # {} THEN e
    ELSE IF "NOPATH" \in e.flags
         THEN IF attr # NoAttr THEN OpenFallback(e, attr) ELSE e
    ELSE IF f = NoFile
         THEN IF attr # NoAttr THEN OpenFallback(e, attr) ELSE e
    ELSE IF f = BadFile
         THEN IF attr # NoAttr THEN OpenFallback([e EXCEPT !.fd = 1], attr)
              ELSE [e EXCEPT !.fd = 1]
    ELSE LET e1 == [e EXCEPT !.fd = 1, !.stat = FileStat(f)]
         IN IF attr # NoAttr /\ f.ino # attr THEN OpenFallback(e1, attr)
            ELSE [e1 EXCEPT !.flags = @ \cup (IF f.sheb THEN {"SHEBANG"} ELSE {}) \cup {"STAT"}]

\* the fd is left as it is
image_exec_close_never(e) == e

image_exec_close(e) == [e EXCEPT !.fd = -1]

(***************************************************************************)
(* image_exec_acquire: env is what the caches, the hashing, the re-stats   *)
(* and the signature check answer during this call.                        *)
(*   hit   cachehash_get hit                                               *)
(*   hash  "ok" | "fail" (hashes_fd returns -1)                             *)
(*   dsz   the bytes hashed minus stat.size                                *)
(*   st2   sys_fdattr after hashing: "fail", "same", or the field that has *)
(*         changed ("size", "mtime", "ctime", "btime")                     *)
(*   csig  cachecsig_get: "hit" | "miss" | "enomem"                        *)
(*   cs    codesign_new: "ok" | "fail" | "enomem"                          *)
(*   st3   sys_pathattr after the signature check, as st2 and "ino"        *)
(* Acquire returns [e, rv, ops]: the image, the return value and the calls *)
(* made to the caches, the hashing and the signature check.                *)
(***************************************************************************)
Done(e) == [e EXCEPT !.flags = @ \cup {"DONE"}]

\* the stat a re-stat reports when field what of st has changed meanwhile
Restat(st, what) ==
    CASE what = "size" -> [st EXCEPT !.size = @ + 1]
      [] what = "mtime" -> [st EXCEPT !.mtime = @ + 1]
      [] what = "ctime" -> [st EXCEPT !.ctime = @ + 1]
      [] what = "btime" -> [st EXCEPT !.btime = @ + 1]
      [] what = "ino" -> [st EXCEPT !.ino = @ + 1]
      [] OTHER -> st

\* a comparison of lines 313-319 that only looks at the size
FdStatChangedSize(a, b) == a.size # b.size

\* lines 313-319: the fd is still open, dev and ino are not compared
FdStatChanged(a, b) ==
    \/ a.size # b.size
    \/ a.mtime # b.mtime
    \/ a.ctime # b.ctime
    \/ a.btime # b.btime

\* lines 412-420
PathStatChanged(a, b) == FdStatChanged(a, b) \/ a.ino # b.ino

\* lines 279-345
AcquireHashes(e, env) ==
    IF "HASHES" \in e.flags THEN [e |-> e, rv |-> 0, ops |-> {}]
    ELSE IF "STAT" \notin e.flags \/ e.fd = -1 THEN [e |-> Done(e), rv |-> -1, ops |-> {}]
    ELSE IF env.hit
    THEN [e |-> [e EXCEPT !.hashes = "cache", !.flags = @ \cup {"HASHES"}], rv |-> 0,
          ops |-> {"cachehash_get"}]
    ELSE IF env.hash # "ok" \/ e.stat.size + env.dsz # e.stat.size
    THEN [e |-> Done([e EXCEPT !.fd = -1]), rv |-> -1, ops |-> {"cachehash_get", "hashes_fd"}]
    ELSE LET e1 == [e EXCEPT !.hashes = "file"]
             ops == {"cachehash_get", "hashes_fd", "sys_fdattr"}
         IN IF env.st2 = "fail" THEN [e |-> Done([e1 EXCEPT !.fd = -1]), rv |-> -1, ops |-> ops]
            ELSE IF FdStatChanged(e1.stat, Restat(e1.stat, env.st2))
            THEN [e |-> Done([e1 EXCEPT !.fd = -1, !.flags = @ \ {"HASHES"}]), rv |-> -1,
                  ops |-> ops]
            ELSE [e |-> [e1 EXCEPT !.flags = @ \cup {"HASHES"}], rv |-> 0,
                  ops |-> ops \cup {"cachehash_put"}]

\* lines 368-433
AcquireCodesign(e, kern, env) ==
    LET get == e.codesign = NULL /\ "HASHES" \in e.flags
        ops1 == IF get THEN {"cachecsig_get"} ELSE {}
        e1 == IF get /\ env.csig = "hit" THEN [e EXCEPT !.codesign = "apple"] ELSE e
        ops2 == ops1 \cup {"codesign_new"}
    IN IF get /\ env.csig = "enomem"
       THEN [e |-> Done([e EXCEPT !.flags = @ \cup {"ENOMEM"}]), rv |-> -1, ops |-> ops1]
       ELSE IF e1.codesign = NULL /\ codesign_enabled
       THEN IF kern /\ e1.path \in {"/usr/libexec/xpcproxy", "/usr/sbin/ocspd"}
            THEN [e |-> e1, rv |-> 0, ops |-> ops1]
            ELSE IF env.cs = "enomem"
            THEN [e |-> Done([e1 EXCEPT !.flags = @ \cup {"ENOMEM"}]), rv |-> -1, ops |-> ops2]
            ELSE IF env.cs = "fail" THEN [e |-> Done(e1), rv |-> -1, ops |-> ops2]
            ELSE IF env.st3 = "fail"
            THEN [e |-> Done([e1 EXCEPT !.codesign = "apple"]), rv |-> -1, ops |-> ops2]
            ELSE IF PathStatChanged(e1.stat, Restat(e1.stat, env.st3))
            THEN [e |-> Done(e1), rv |-> -1, ops |-> ops2]
            ELSE [e |-> Done([e1 EXCEPT !.codesign = "apple"]), rv |-> 0,
                  ops |-> ops2 \cup {"cachecsig_put"}]
       ELSE [e |-> Done(e1), rv |-> 0, ops |-> ops1]

\* lines 268-277 without the test of DONE
AcquireSkipKern(e, kern) ==
    \/ kern /\ kextlevel < KEXTLEVEL_HASH
    \/ kern /\ e.stat.size > LargeFile

\* lines 268-277: nothing is left to do, or it is postponed
AcquireSkip(e, kern) ==
    \/ "DONE" \in e.flags
    \/ kern /\ kextlevel < KEXTLEVEL_HASH
    \/ kern /\ e.stat.size > LargeFile

\* lines 259-433
Acquire(e, kern, env) ==
    IF AcquireSkip(e, kern) THEN [e |-> e, rv |-> 0, ops |-> {}]
    ELSE LET h == AcquireHashes(e, env)
             e1 == [h.e EXCEPT !.fd = -1]
         IN IF h.rv = -1 THEN h
            ELSE IF kern /\ kextlevel < KEXTLEVEL_CSIG THEN [e |-> e1, rv |-> 0, ops |-> h.ops]
            ELSE IF "SHEBANG" \in e1.flags THEN [e |-> Done(e1), rv |-> 0, ops |-> h.ops]
            ELSE LET c == AcquireCodesign(e1, kern, env)
                 IN [c EXCEPT !.ops = @ \cup h.ops]

image_exec_acquire(e, kern, env) == Acquire(e, kern, env).e

\* the run's caches are cold and its files do not change
AcqEnvs == {[hit |-> FALSE, hash |-> "ok", dsz |-> 0, st2 |-> "same", csig |-> "miss",
             cs |-> "ok", st3 |-> "same"]}

(***************************************************************************)
(* image_exec_match_suppressions                                           *)
(***************************************************************************)
image_exec_match_suppressions(im, i, by_ident, by_path) ==
    \/ im[i].codesign # NULL /\ im[i].codesign \in by_ident
    \/ im[i].path # NULL /\ im[i].path \in by_path
    \/ im[i].script # NoImage /\ im[im[i].script].path # NULL
          /\ im[im[i].script].path \in by_path

(***************************************************************************)
(* image_exec_prune_ancestors                                              *)
(***************************************************************************)
RECURSIVE image_exec_prune_ancestors(_, _, _)

\* the comparison of line 166 off by one: one level more is kept
image_exec_prune_late(im, i, level) ==
    IF im[i].prev = NoImage THEN im
    ELSE IF level > ancestors
         THEN [image_exec_free(im, im[i].prev) EXCEPT ![i].prev = NoImage]
    ELSE IF im[i].refs = 1 THEN image_exec_prune_ancestors(im, im[i].prev, level + 1)
    ELSE im

image_exec_prune_ancestors(im, i, level) ==
    IF im[i].prev = NoImage THEN im
    ELSE IF level >= ancestors
         THEN [image_exec_free(im, im[i].prev) EXCEPT ![i].prev = NoImage]
    ELSE IF im[i].refs = 1 THEN image_exec_prune_ancestors(im, im[i].prev, level + 1)
    ELSE im

(***************************************************************************)
(* The machine record: the variables of the module as one value, so that   *)
(* handlers compose (procmon_spawn is procmon_fork then procmon_exec, and  *)
(* every handler may run procmon_proc_from_pid first).                     *)
(***************************************************************************)
\* fd contexts (fd_ctx_t; proc.h is not among the sources, modelled from the
\* specification, sections 3 and 4.3): flags "none" (the fd has no context),
\* "SOCKET" or "FILE"; a socket has proto, addr, port, a file has path
Fds == {3, 4}
Protos == {6, 17}
EmptyAddr == "empty"
Addrs == {EmptyAddr, "0.0.0.0"}
Ports == {0, 80}
NoCtx == [flags |-> "none", proto |-> 0, addr |-> EmptyAddr, port |-> 0, path |-> NULL]

NoProc == [present |-> FALSE, cwd |-> NULL, image_exec |-> NoImage,
           fdtab |-> [fd \in Fds |-> NoCtx]]

\* What the last handler did.  op, pid: the handler and its subject; ret: how
\* it returned; sub: the images it submitted to the worker, in order.
\* procmon_exec: looked (prepq_lookup was reached), intable (the subject was
\* in the table when the handler began), attr and imagepath of the record,
\* prevcur (the subject's image before the splice), pqmiss0 (pqmiss before
\* the lookup), matchq (the queued images the record's image slot matches),
\* hit and pqinterp (the lookup's result), image, interp, cur (the spliced
\* images), skipped (the entries passed over, with their pqttl before),
\* dropped (the entries evicted).  image_exec_work: image, chain0 and chain
\* (the number of ancestors behind it on entry and on return), excl (it
\* owned its path exclusively on entry).  procmon_fork: child (childpid),
\* stale (childpid had an entry that the fork removed), refs0 (the refs of
\* the parent's image once that entry was removed).  procmon_exec also:
\* noargv (argv == NULL); a dropped script keeps image (the script image).
\* image_exec_acquire: image, kern, rv, ops (the calls it made), restat (what
\* the sys_fdattr after hashing answered, "none" when it was not called),
\* flags0 (the image's flags on entry).  procmon_exit: pid, stale (the pid
\* had an entry).  The socket calls: pid, fd, out (what procmon_socket_bind
\* and procmon_socket_state returned: proto, or proto, addr and port).
\* procmon_exec also: q0 (the queue prepq_lookup started on, head first: each
\* entry's image, whether it matches the record's image slot (match) and
\* interpreter slot (imatch), whether it is a script (sheb), its pqttl), argc
\* (the length of argv), sheb (the image, once opened, is a script),
\* pqlookup0, pqdrop0, pqskip0 (the counters when the handler began),
\* freedread (the images whose node the loop read after they were freed),
\* leaked (the images the handler destroyed with their file still open),
\* rec (the pids procmon_proc_from_pid was entered for, in order), absent0
\* (the pids that had no table entry when the handler began).
NoLast == [op |-> "init", pid |-> 0, ret |-> "none", sub |-> <<>>,
           looked |-> FALSE, intable |-> FALSE, attr |-> 0, imagepath |-> NULL,
           prevcur |-> NoImage, pqmiss0 |-> 0, matchq |-> {}, hit |-> NoImage,
           pqinterp |-> NoImage, image |-> NoImage, interp |-> NoImage,
           cur |-> NoImage, skipped |-> {}, dropped |-> {}, chain0 |-> 0,
           chain |-> 0, excl |-> FALSE, child |-> 0, stale |-> FALSE,
           refs0 |-> 0, noargv |-> FALSE, kern |-> FALSE, rv |-> 0, ops |-> {},
           restat |-> "none", flags0 |-> {}, fd |-> 0, out |-> <<>>,
           q0 |-> <<>>, argc |-> 0, sheb |-> FALSE, pqlookup0 |-> 0, pqdrop0 |-> 0,
           pqskip0 |-> 0, freedread |-> {}, leaked |-> {},
           rec |-> <<>>, absent0 |-> {}]

Cur == [img |-> img, pqlist |-> pqlist, pqsize |-> pqsize, pqlookup |-> pqlookup,
        pqmiss |-> pqmiss, pqdrop |-> pqdrop, pqskip |-> pqskip,
        miss_execsubj |-> miss_execsubj, miss_execinterp |-> miss_execinterp,
        proctab |-> proctab, handles |-> handles, config |-> config,
        crashed |-> crashed, appended |-> appended, unlinked |-> unlinked,
        pqseen |-> pqseen, last |-> last]

Begin(op, pid) == [Cur EXCEPT !.last = [NoLast EXCEPT !.op = op, !.pid = pid]]

\* A failed assertion or a fault ends the daemon: nothing of the handler's
\* partial work is observable afterwards.
Keep(m) ==
    /\ crashed' = m.crashed
    /\ IF m.crashed # "none"
       THEN /\ last' = [m.last EXCEPT !.ret = "crash"]
            /\ UNCHANGED <<img, pqlist, pqsize, pqlookup, pqmiss, pqdrop, pqskip,
                           miss_execsubj, miss_execinterp, proctab, handles, config,
                           appended, unlinked, pqseen>>
       ELSE /\ img' = m.img
            /\ pqlist' = m.pqlist
            /\ pqsize' = m.pqsize
            /\ pqlookup' = m.pqlookup
            /\ pqmiss' = m.pqmiss
            /\ pqdrop' = m.pqdrop
            /\ pqskip' = m.pqskip
            /\ miss_execsubj' = m.miss_execsubj
            /\ miss_execinterp' = m.miss_execinterp
            /\ proctab' = m.proctab
            /\ handles' = m.handles
            /\ config' = m.config
            /\ appended' = m.appended
            /\ unlinked' = m.unlinked
            /\ pqseen' = m.pqseen
            /\ last' = m.last

\* the step that enters a handler or starts a call of the kernel thread or
\* of the worker is counted
Store(m) == steps' = steps + 1 /\ Keep(m)

\* a handler that runs from its call to its return with no other thread in
\* between
Commit(m) == Store(m) /\ UNCHANGED <<ostree, thr>>

Crash(m, why) == [m EXCEPT !.crashed = why]
Ret(m, r) == [m EXCEPT !.last.ret = r]

\* the images of im0 that are destroyed in im1 with their file still open
Leaked(im0, im1) == {j \in ImgIds : im0[j].refs > 0 /\ im1[j].refs = 0 /\ im0[j].fd # -1}

Free(m, i) ==
    LET im == image_exec_free(m.img, i)
    IN [m EXCEPT !.img = im, !.last.leaked = @ \cup Leaked(m.img, im)]
Ref(m, i) == [m EXCEPT !.img = image_exec_ref(m.img, i)]

\* work_submit: the worker queue takes the reference the caller just added
work_submit(m, i) == [m EXCEPT !.img[i].wk = "queued", !.last.sub = Append(@, i)]

(***************************************************************************)
(* Process table (proc.c is not among the sources; modelled from the       *)
(* specification, section 4.3).                                            *)
(***************************************************************************)
proctab_find(m, pid) == m.proctab[pid].present

proctab_create(m, pid) == [m EXCEPT !.proctab[pid] = [NoProc EXCEPT !.present = TRUE]]

\* frees the entry's owned state: the cwd and the reference on image_exec
proctab_remove(m, pid) ==
    IF ~m.proctab[pid].present THEN m
    ELSE LET i == m.proctab[pid].image_exec
             m1 == [m EXCEPT !.proctab[pid] = NoProc]
         IN IF i # NoImage THEN Free(m1, i) ELSE m1

\* the per-process fd table
proc_getfd(m, pid, fd) == m.proctab[pid].fdtab[fd]

proc_setfd(m, pid, fd, ctx) == [m EXCEPT !.proctab[pid].fdtab[fd] = ctx]

proc_closefd(m, pid, fd) == [m EXCEPT !.proctab[pid].fdtab[fd] = NoCtx]

\* an ipaddr_t without an address family
ipaddr_is_empty(addr) == addr = EmptyAddr

(***************************************************************************)
(* procmon_proc_from_pid (with image_exec_from_pid).  Returns the set of   *)
(* [m, ok, enomem]: ok = a proc was returned, enomem = errno is ENOMEM.    *)
(***************************************************************************)
RecoveryPath == "/bin/sh"
\* whether sys_pidpath fails (the path is then the synthetic <pid>)
RecoveryNoPath == {FALSE}
RecoveryCwd == "/"
\* what sys_pidbsdinfo answers as the parent
Ppids(pid) == ostree[pid]

\* lines 586-613 without the work_submit of line 614
RecoverLinkUnsubmitted(m, pid, ppid, log_event) ==
    LET i == m.proctab[pid].image_exec
        pi == IF ppid # -1 /\ m.proctab[ppid].present THEN m.proctab[ppid].image_exec
              ELSE NoImage
        m1 == IF pi # NoImage THEN Ref([m EXCEPT !.img[i].prev = pi], pi) ELSE m
        m2 == IF ~log_event \/ pid = 0
              THEN [m1 EXCEPT !.img[i].flags = @ \cup {"NOLOG"}] ELSE m1
    IN Ref(m2, i)

\* steps 6-8 of the recovery of pid, once the parent (if any) is settled
RecoverLink(m, pid, ppid, log_event) ==
    LET i == m.proctab[pid].image_exec
        pi == IF ppid # -1 /\ m.proctab[ppid].present THEN m.proctab[ppid].image_exec
              ELSE NoImage
        m1 == IF ppid # -1 /\ m.proctab[ppid].present
              THEN IF pi # NoImage THEN Ref([m EXCEPT !.img[i].prev = pi], pi) ELSE m
              ELSE m
        m2 == IF ~log_event \/ pid = 0
              THEN [m1 EXCEPT !.img[i].flags = @ \cup {"NOLOG"}] ELSE m1
    IN work_submit(Ref(m2, i), i)

RECURSIVE procmon_proc_from_pid(_, _, _)
procmon_proc_from_pid(m0, pid, log_event) ==
    LET m == [m0 EXCEPT !.last.rec = Append(@, pid)]
    IN
    \* proctab_find_or_create, sys_pidbsdinfo, sys_pidcwd or image_exec_from_pid
    \* fails: the entry (if it was created) is removed again
    {[m |-> proctab_remove(m, pid), ok |-> FALSE, enomem |-> e] : e \in BOOLEAN}
    \cup
    IF FreeSlots(m.img) = {} THEN {}
    ELSE UNION {
      LET m1 == proctab_create(m, pid)
          i == Malloc(m1.img)
          e0 == [FreeImage EXCEPT !.refs = 1,
                                  !.path = IF nopath THEN "<pid>" ELSE RecoveryPath,
                                  !.flags = (IF nopath THEN {"NOPATH"} ELSE {}) \cup {"PIDLOOKUP"},
                                  !.pid = pid]
          m2 == [m1 EXCEPT !.proctab[pid].cwd = RecoveryCwd,
                           !.proctab[pid].image_exec = i,
                           !.img[i] = image_exec_open(e0, NoAttr, f),
                           !.appended[i] = 0, !.unlinked[i] = 0, !.pqseen[i] = 0]
      IN IF ppid >= 0 /\ ppid # pid /\ ~proctab_find(m2, ppid)
         THEN UNION {
                IF r.ok THEN {[m |-> RecoverLink(r.m, pid, ppid, log_event), ok |-> TRUE, enomem |-> FALSE]}
                ELSE IF r.enomem
                THEN {[m |-> proctab_remove(r.m, pid), ok |-> FALSE, enomem |-> TRUE]}
                ELSE {[m |-> RecoverLink(r.m, pid, -1, log_event), ok |-> TRUE, enomem |-> FALSE]}
                : r \in procmon_proc_from_pid(m2, ppid, log_event)}
         ELSE {[m |-> RecoverLink(m2, pid, IF ppid = pid THEN -1 ELSE ppid, log_event),
                ok |-> TRUE, enomem |-> FALSE]}
      : ppid \in Ppids(pid), nopath \in RecoveryNoPath, f \in Disk(RecoveryPath)}

\* the subject of an audit record: the table's entry, or a recovered one
Subject(m, pid) ==
    IF proctab_find(m, pid) THEN {[m |-> m, ok |-> TRUE, enomem |-> FALSE]}
    ELSE procmon_proc_from_pid(m, pid, TRUE)

(***************************************************************************)
(* The pre-exec queue.                                                     *)
(***************************************************************************)
\* malloc + image_exec_new at machine level: slot i starts a new life
New(m, i, path) ==
    [m EXCEPT !.img = image_exec_new(m.img, i, path), !.appended[i] = 0, !.unlinked[i] = 0,
              !.pqseen[i] = 0]

RemoveFirst(q, i) ==
    IF \E k \in 1..Len(q) : q[k] = i
    THEN LET k == CHOOSE j \in 1..Len(q) : q[j] = i /\ \A h \in 1..(j - 1) : q[h] # i
         IN SubSeq(q, 1, k - 1) \o SubSeq(q, k + 1, Len(q))
    ELSE q

prepq_append(m, i) ==
    [m EXCEPT !.pqlist = Append(@, i), !.pqsize = @ + 1, !.appended[i] = @ + 1]

\* the size is counted down but the node stays linked
prepq_remove_linked(m, i) == [m EXCEPT !.pqsize = @ - 1, !.unlinked[i] = @ + 1]

prepq_remove_existing(m, i) ==
    [m EXCEPT !.pqlist = RemoveFirst(@, i), !.pqsize = @ - 1, !.unlinked[i] = @ + 1]

\* lines 778-782: the image slot of the lookup
PqMatchImage(e, a) ==
    /\ e.pid = a.pid
    /\ \/ a.attr # NoAttr /\ e.stat.ino = a.attr
       \/ a.attr = NoAttr /\ sys_basenamecmp(e.path, a.imagepath) = 0

\* lines 801-802: the interpreter slot of the lookup
PqMatchInterp(e, a) == e.pid = a.pid /\ sys_basenamecmp(e.path, a.argv[1]) = 0

\* the comparison of line 816 off by one
PqExpiredLate(ttl) == ttl > MAXPQTTL

\* line 816
PqExpired(ttl) == ttl = MAXPQTTL

\* what node->next yields when node lies in memory that was just freed
FreedNext == {"intact", "null", "wild"}

\* prepq_lookup's loop from position k of the queue q0 it started on;
\* w = [m, image, interp].  The set of ways the traversal can end.
RECURSIVE prepq_walk(_, _, _, _)

\* line 810 without the aging of line 816
PqSkipUnaged(w, k, q0, a) ==
    prepq_walk([w EXCEPT !.m.pqskip = @ + 1,
                         !.m.last.skipped = @ \cup {[image |-> q0[k],
                                                     pqttl |-> w.m.img[q0[k]].pqttl]}],
               k + 1, q0, a)

\* lines 810-823 without the pqskip++ of line 810
PqSkipUncounted(w, k, q0, a) ==
    LET ei == q0[k]
        ttl == w.m.img[ei].pqttl + 1
        w1 == [w EXCEPT !.m.img[ei].pqttl = ttl,
                        !.m.last.skipped = @ \cup {[image |-> ei, pqttl |-> ttl - 1]}]
        m2 == Free(prepq_remove_existing(w1.m, ei), ei)
        w2 == [w1 EXCEPT !.m = [m2 EXCEPT !.pqdrop = @ + 1, !.last.dropped = @ \cup {ei}]]
    IN IF PqExpired(ttl)
       THEN UNION {CASE n = "intact" -> prepq_walk(w2, k + 1, q0, a)
                     [] n = "null" -> {w2}
                     [] OTHER -> {[w2 EXCEPT !.m = Crash(@, "fault: next of a freed node")]}
                   : n \in FreedNext}
       ELSE prepq_walk(w1, k + 1, q0, a)

\* lines 810-823, and the loop's node = node->next
PqSkip(w, k, q0, a) ==
    LET ei == q0[k]
        ttl == w.m.img[ei].pqttl + 1
        w1 == [w EXCEPT !.m.pqskip = @ + 1, !.m.img[ei].pqttl = ttl,
                        !.m.last.skipped = @ \cup {[image |-> ei, pqttl |-> ttl - 1]}]
        m2 == Free(prepq_remove_existing(w1.m, ei), ei)
        w2 == [w1 EXCEPT !.m = [m2 EXCEPT !.pqdrop = @ + 1, !.last.dropped = @ \cup {ei},
                                          !.last.freedread =
                                               IF m2.img[ei].refs = 0 THEN @ \cup {ei} ELSE @]]
    IN IF PqExpired(ttl)
       THEN UNION {CASE n = "intact" -> prepq_walk(w2, k + 1, q0, a)
                     [] n = "null" -> {w2}
                     [] OTHER -> {[w2 EXCEPT !.m = Crash(@, "fault: next of a freed node")]}
                   : n \in FreedNext}
       ELSE prepq_walk(w1, k + 1, q0, a)

prepq_walk(w, k, q0, a) ==
    IF k > Len(q0) THEN {w}
    ELSE LET ei == q0[k]
             e == w.m.img[ei]
         IN IF w.image = NoImage
            THEN IF PqMatchImage(e, a)
                 THEN LET w1 == [w EXCEPT !.m = prepq_remove_existing(w.m, ei), !.image = ei]
                      IN IF "SHEBANG" \in e.flags /\ Len(a.argv) >= 2
                         THEN prepq_walk(w1, k + 1, q0, a)
                         ELSE {w1}
                 ELSE PqSkip(w, k, q0, a)
            ELSE IF PqMatchInterp(e, a)
                 THEN {[w EXCEPT !.m = prepq_remove_existing(w.m, ei), !.interp = ei]}
                 ELSE PqSkip(w, k, q0, a)

prepq_lookup(m, a) ==
    prepq_walk([m |-> [m EXCEPT !.pqlookup = @ + 1,
                                !.pqseen = [i \in ImgIds |->
                                              IF \E k \in 1..Len(m.pqlist) : m.pqlist[k] = i
                                              THEN @[i] + 1 ELSE @[i]]],
                image |-> NoImage, interp |-> NoImage],
               1, m.pqlist, a)

(***************************************************************************)
(* procmon_exec                                                            *)
(***************************************************************************)
\* sys_realpath(argv[0], cwd) succeeds on the paths that exist
RealPaths == {"/bin/sh"}

\* lines 1009-1014
ExecSuppress(im, cur) ==
    IF "NOLOG_KIDS" \in im[im[cur].prev].flags
    THEN [im EXCEPT ![cur].flags = @ \cup {"NOLOG", "NOLOG_KIDS"}]
    ELSE IF image_exec_match_suppressions(im, cur, suppress_image_exec_by_ancestor_ident,
                                          suppress_image_exec_by_ancestor_path)
         THEN [im EXCEPT ![cur].flags = @ \cup {"NOLOG_KIDS"}]
         ELSE im

\* lines 986-997: strdup(proc->cwd) failed
ExecNoCwd(m, pid, cur, prev) ==
    LET m1 == [Free(m, cur) EXCEPT !.proctab[pid].image_exec = NoImage]
    IN Ret(IF prev # NoImage THEN Free(m1, prev) ELSE m1, "oom")

\* the script itself is made the current image
ExecCurrentScript(sheb, image, interp) == image

\* lines 977-982: the image that becomes proc->image_exec
ExecCurrent(sheb, image, interp) == IF sheb THEN interp ELSE image

\* lines 975-1022
ExecSplice(m, a, image, interp) ==
    LET prev == m.proctab[a.pid].image_exec
        sheb == "SHEBANG" \in m.img[image].flags
        cur == ExecCurrent(sheb, image, interp)
        m1 == [m EXCEPT !.proctab[a.pid].image_exec = cur,
                        !.img[cur].script = IF sheb THEN image ELSE @,
                        !.last.image = image, !.last.interp = interp,
                        !.last.cur = cur]
        m2 == [m1 EXCEPT !.img[cur].pid = a.pid, !.img[cur].prev = prev]
        m3 == [m2 EXCEPT !.img = ExecSuppress(m2.img, cur)]
    IN IF cur = prev THEN {Crash(m, "assert: image_exec != prev_image_exec")}
       ELSE IF m.proctab[a.pid].cwd = NULL THEN {Crash(m, "fault: strdup of a null cwd")}
       ELSE {ExecNoCwd(m1, a.pid, cur, prev)}
            \cup
            (IF m1.img[cur].refs # 1 THEN {Crash(m, "assert: refs == 1")}
             ELSE IF prev = NoImage THEN {Crash(m, "fault: flags of a null prev")}
             ELSE {Ret(work_submit(Ref(m3, cur), cur), "ok")})

\* the miss is not counted
PqMissUncounted(m) == m

\* lines 893 and 921: pqmiss++
PqMiss(m) == [m EXCEPT !.pqmiss = @ + 1]

\* lines 922-932 without the image_exec_free of line 928
ExecNoInterpKept(m, image) ==
    Ret([PqMiss(m) EXCEPT !.miss_execinterp = @ + 1, !.last.image = image],
        "miss_execinterp")

\* lines 922-932 (and 937-952, 956-968): the interpreter of a script is not
\* to be had, the exec is dropped and the script image released
ExecNoInterp(m, image) ==
    Ret(Free([PqMiss(m) EXCEPT !.miss_execinterp = @ + 1, !.last.image = image], image),
        "miss_execinterp")

\* lines 914-973
ExecInterp(m0, a, image, interp) ==
    LET m == [m0 EXCEPT !.last.sheb = "SHEBANG" \in m0.img[image].flags]
        drop == ExecNoInterp(m, image)
        mm == PqMiss(m)
    IN IF "SHEBANG" \notin m.img[image].flags THEN ExecSplice(m, a, image, interp)
       ELSE IF interp # NoImage
       THEN UNION {ExecSplice([m EXCEPT !.img[interp] = image_exec_open(@, NoAttr, f)],
                              a, image, interp)
                   : f \in Disk(m.img[interp].path)}
       ELSE IF a.argv = NoArgv THEN {drop}
       ELSE \* sys_realpath or image_exec_new fails
            {drop}
            \cup
            IF a.argv[1] \notin RealPaths \/ FreeSlots(m.img) = {} THEN {}
            ELSE LET i == Malloc(m.img)
                     m1 == New(mm, i, a.argv[1])
                 IN UNION {ExecSplice([m1 EXCEPT !.img[i] = image_exec_open(@, NoAttr, f)],
                                      a, image, i)
                           : f \in Disk(a.argv[1])}

\* lines 888-908
ExecImage(w, a) ==
    IF w.m.crashed # "none" THEN {w.m}
    ELSE IF w.image # NoImage
    THEN LET m1 == [w.m EXCEPT !.last.hit = w.image, !.last.pqinterp = w.interp]
         IN UNION {ExecInterp([m1 EXCEPT !.img[w.image] = image_exec_open(@, a.attr, f)],
                              a, w.image, w.interp)
                   : f \in Disk(m1.img[w.image].path)}
    ELSE LET mm == PqMiss(w.m)
         IN \* image_exec_new fails
            {Ret(mm, "oom")}
            \cup
            IF FreeSlots(mm.img) = {} THEN {}
            ELSE LET i == Malloc(mm.img)
                     m1 == New(mm, i, a.imagepath)
                 IN UNION {ExecInterp([m1 EXCEPT !.img[i] = image_exec_open(@, a.attr, f)],
                                      a, i, NoImage)
                           : f \in Disk(a.imagepath)}

\* the history of an exec that reaches prepq_lookup: m0 is the machine when
\* the handler began, m the machine with the subject found or recovered
ExecBegin(m0, m, a) ==
    [m EXCEPT !.last.pid = a.pid, !.last.looked = TRUE,
              !.last.intable = m0.proctab[a.pid].present,
              !.last.attr = a.attr, !.last.imagepath = a.imagepath,
              !.last.noargv = (a.argv = NoArgv),
              !.last.prevcur = m.proctab[a.pid].image_exec,
              !.last.pqmiss0 = m.pqmiss,
              !.last.pqlookup0 = m.pqlookup,
              !.last.pqdrop0 = m.pqdrop,
              !.last.pqskip0 = m.pqskip,
              !.last.argc = Len(a.argv),
              !.last.q0 = [k \in 1..Len(m.pqlist) |->
                             LET e == m.img[m.pqlist[k]]
                             IN [image |-> m.pqlist[k],
                                 match |-> PqMatchImage(e, a),
                                 imatch |-> Len(a.argv) >= 2 /\ PqMatchInterp(e, a),
                                 sheb |-> "SHEBANG" \in e.flags,
                                 pqttl |-> e.pqttl]],
              !.last.matchq = {m.pqlist[k] : k \in {j \in 1..Len(m.pqlist) :
                                                     PqMatchImage(m.img[m.pqlist[j]], a)}}]

\* lines 853-866 without the miss_execsubj++ of line 854
ExecNoSubjectUncounted(m, enomem) == Ret(m, IF enomem THEN "oom" ELSE "miss_execsubj")

\* lines 853-866: the subject is neither in the table nor recovered; the
\* miss is counted unless errno is ENOMEM
ExecNoSubject(m, enomem) ==
    IF enomem THEN Ret(m, "oom")
    ELSE Ret([m EXCEPT !.miss_execsubj = @ + 1], "miss_execsubj")

\* lines 836-873.  a = [pid, imagepath, attr, argv]
procmon_exec(m, a) ==
    UNION {IF ~r.ok
           THEN {ExecNoSubject(r.m, r.enomem)}
           ELSE UNION {ExecImage(w, a) : w \in prepq_lookup(ExecBegin(m, r.m, a), a)}
           : r \in Subject(m, a.pid)}

(***************************************************************************)
(* The other handlers of the audit thread.                                 *)
(***************************************************************************)
\* lines 695-697 without the image_exec_ref of line 697
ForkImageBorrowed(m, pid, childpid) ==
    [m EXCEPT !.proctab[childpid].image_exec = m.proctab[pid].image_exec]

\* lines 695-697: the child shares the parent's image and holds a reference
ForkImage(m, pid, childpid) ==
    Ref([m EXCEPT !.proctab[childpid].image_exec = m.proctab[pid].image_exec],
        m.proctab[pid].image_exec)

\* lines 652-698
procmon_fork(m, pid, childpid) ==
    UNION {IF ~r.ok THEN {Ret(r.m, "miss_forksubj")}
           ELSE LET m0 == [r.m EXCEPT !.last.child = childpid,
                                      !.last.stale = proctab_find(r.m, childpid)]
                    m1 == proctab_remove(m0, childpid)
                    parent == m1.proctab[pid]
                    m2 == [proctab_create(m1, childpid) EXCEPT
                              !.proctab[childpid].cwd = parent.cwd,
                              !.last.refs0 = IF parent.image_exec = NoImage THEN 0
                                             ELSE m1.img[parent.image_exec].refs]
                IN \* proctab_create or strdup fails
                   {Ret(m1, "oom")}
                   \cup
                   (IF parent.cwd = NULL THEN {Crash(m, "assert: parent->cwd")}
                    ELSE IF parent.image_exec = NoImage
                    THEN {Crash(m, "assert: parent->image_exec")}
                    ELSE {Ret(ForkImage(m2, pid, childpid), "ok")})
           : r \in Subject(m, pid)}

\* lines 707-722
procmon_spawn(m, pid, childpid, a) ==
    UNION {IF m1.crashed # "none" THEN {m1}
           ELSE \* the history kept of a spawn is that of its exec
                procmon_exec([m1 EXCEPT !.last.ret = "none", !.last.sub = <<>>,
                                        !.last.child = 0, !.last.stale = FALSE,
                                        !.last.refs0 = 0],
                             [a EXCEPT !.pid = childpid])
           : m1 \in procmon_fork(m, pid, childpid)}

\* the entry is not removed
procmon_exit_kept(m, pid) == Ret(m, "ok")

\* lines 1031-1039
procmon_exit(m, pid) == Ret(proctab_remove(m, pid), "ok")

\* lines 1049-1064: esrch is what kill(pid, 0) answers
procmon_wait4(m, pid, esrch) == IF esrch THEN procmon_exit(m, pid) ELSE Ret(m, "alive")

\* lines 1073-1101
procmon_chdir(m, pid, path) ==
    {IF ~r.ok THEN Ret(r.m, "miss_chdirsubj")
     ELSE Ret([r.m EXCEPT !.proctab[pid].cwd = path], "ok")
     : r \in Subject(m, pid)}

\* lines 1146-1156
procmon_preloadpid(m, pid) ==
    IF proctab_find(m, pid) THEN {Ret(m, "loaded")}
    ELSE {Ret(r.m, IF r.ok THEN "ok" ELSE "gone")
          : r \in procmon_proc_from_pid(m, pid, ~suppress_image_exec_at_start)}

\* lines 1162-1180
procmon_getcwd(m, pid) ==
    {Ret(r.m, IF r.ok THEN "ok" ELSE "miss_getcwd") : r \in Subject(m, pid)}

(***************************************************************************)
(* Socket and file contexts of sockmon and filemon.                        *)
(***************************************************************************)
\* lines 1187-1213: the set of outcomes (malloc of a new context can fail)
procmon_socket_create(m, pid, fd, proto) ==
    IF ~proctab_find(m, pid) THEN {Ret(m, "unknown")}
    ELSE LET made == Ret(proc_setfd(m, pid, fd, [NoCtx EXCEPT !.flags = "SOCKET",
                                                             !.proto = proto]), "ok")
         IN IF proc_getfd(m, pid, fd).flags # "none" THEN {made}
            ELSE {Ret(m, "oom"), made}

\* lines 1222-1243 without the stores of lines 1237-1238
procmon_socket_bind_unkept(m, pid, fd, addr, port) ==
    IF ~proctab_find(m, pid) \/ proc_getfd(m, pid, fd).flags # "SOCKET"
    THEN [m |-> m, proto |-> 0]
    ELSE [m |-> m, proto |-> proc_getfd(m, pid, fd).proto]

\* lines 1222-1243: [m, proto]
procmon_socket_bind(m, pid, fd, addr, port) ==
    IF ~proctab_find(m, pid) \/ proc_getfd(m, pid, fd).flags # "SOCKET"
    THEN [m |-> m, proto |-> 0]
    ELSE [m |-> proc_setfd(m, pid, fd, [proc_getfd(m, pid, fd) EXCEPT !.addr = addr,
                                                                      !.port = port]),
          proto |-> proc_getfd(m, pid, fd).proto]

\* lines 1252-1277: the set of [proto, addr, port] the caller can find in its
\* variables; *port is not written when there is no address, the caller then
\* finds whatever its variable held
procmon_socket_state(m, pid, fd) ==
    IF ~proctab_find(m, pid) \/ proc_getfd(m, pid, fd).flags # "SOCKET"
    THEN {[proto |-> 0, addr |-> NULL, port |-> p] : p \in Ports}
    ELSE LET ctx == proc_getfd(m, pid, fd)
         IN IF ipaddr_is_empty(ctx.addr)
            THEN {[proto |-> ctx.proto, addr |-> NULL, port |-> p] : p \in Ports}
            ELSE {[proto |-> ctx.proto, addr |-> ctx.addr, port |-> ctx.port]}

\* lines 1279-1310: the set of outcomes (malloc and strdup can fail)
procmon_file_open(m, pid, fd, path) ==
    IF ~proctab_find(m, pid) THEN {Ret(m, "unknown")}
    ELSE LET made == {Ret(proc_setfd(m, pid, fd, [NoCtx EXCEPT !.flags = "FILE", !.path = q]),
                          IF q = NULL THEN "oom" ELSE "ok") : q \in {path, NULL}}
         IN IF proc_getfd(m, pid, fd).flags # "none" THEN made
            ELSE {Ret(m, "oom")} \cup made

\* lines 1312-1323
procmon_fd_close(m, pid, fd) ==
    IF ~proctab_find(m, pid) THEN m ELSE proc_closefd(m, pid, fd)

\* lines 628-647: the caller receives a reference it must release
image_exec_by_pid(m, pid) ==
    {IF ~r.ok THEN Ret(r.m, "miss_bypid")
     ELSE LET i == r.m.proctab[pid].image_exec
          IN IF i = NoImage THEN Crash(m, "assert: image (image_exec_ref)")
             ELSE Ret([Ref(r.m, i) EXCEPT !.handles[i] = @ + 1, !.last.image = i], "ok")
     : r \in Subject(m, pid)}

(***************************************************************************)
(* Kernel-callback thread: procmon_kern_preexec, lines 1112-1136.          *)
(***************************************************************************)
KernPaths == {"/bin/sh", "/tmp/x"}

\* lines 1112-1134: the image is made, opened and acquired before it is
\* queued
KernImage(m, pid, imagepath, f, env) ==
    LET i == Malloc(m.img)
        m1 == New(m, i, imagepath)
        e == image_exec_acquire(image_exec_open([m1.img[i] EXCEPT !.pid = pid], NoAttr, f),
                                TRUE, env)
    IN [m1 EXCEPT !.img[i] = e, !.last.image = i]

procmon_kern_preexec(m, pid, imagepath, f, env) ==
    Ret(prepq_append(KernImage(m, pid, imagepath, f, env), Malloc(m.img)), "ok")

(***************************************************************************)
(* Worker: image_exec_work, lines 467-490, then the release of the         *)
(* pipeline's reference through hdr.le_free (line 100).                    *)
(***************************************************************************)
WorkReturn(im, i) ==
    IF "ENOMEM" \in im[i].flags THEN -1
    ELSE IF "NOLOG" \in im[i].flags THEN -1
    ELSE IF image_exec_match_suppressions(im, i, suppress_image_exec_by_ident,
                                          suppress_image_exec_by_path) THEN -1
    ELSE 0

\* the number of images behind i along prev (at most MaxImages are followed)
RECURSIVE ChainLen(_, _, _)
ChainLen(im, i, fuel) ==
    IF fuel = 0 \/ im[i].prev = NoImage THEN 0 ELSE 1 + ChainLen(im, im[i].prev, fuel - 1)

\* lines 151-154: on the whole path down to the pruned level, every image is
\* owned by one holder only
RECURSIVE ExclusivePath(_, _, _)
ExclusivePath(im, i, level) ==
    \/ im[i].prev = NoImage
    \/ level >= ancestors
    \/ im[i].refs = 1 /\ ExclusivePath(im, im[i].prev, level + 1)

image_exec_work(m, i, env, senv) ==
    LET s == m.img[i].script
        im1 == [m.img EXCEPT ![i] = image_exec_close(image_exec_acquire(@, FALSE, env))]
        im2 == IF s # NoImage
               THEN [im1 EXCEPT ![s] = image_exec_close(image_exec_acquire(@, FALSE, senv))]
               ELSE im1
        im3 == image_exec_prune_ancestors(im2, i, 0)
    IN [m EXCEPT !.img = [im3 EXCEPT ![i].wk = "done"], !.last.image = i,
                 !.last.chain0 = ChainLen(im2, i, MaxImages),
                 !.last.chain = ChainLen(im3, i, MaxImages),
                 !.last.excl = ExclusivePath(im2, i, 0),
                 !.last.leaked = @ \cup Leaked(im2, im3),
                 !.last.ret = IF WorkReturn(im3, i) = 0 THEN "log" ELSE "nolog"]

\* the worker runs the work function, the pipeline logs or drops the event
\* and frees it
WorkAndFree(m, i, env, senv) == Free(image_exec_work(m, i, env, senv), i)

(***************************************************************************)
(* procmon_fini, lines 1353-1370.                                          *)
(***************************************************************************)
RECURSIVE PqDrain(_)

\* the shutdown forgets the queue: the size is reset, the nodes stay
PqDrainForgotten(m) == [m EXCEPT !.pqsize = 0]

PqDrain(m) ==
    IF m.pqlist = <<>> THEN m
    ELSE LET ei == Head(m.pqlist)
         IN PqDrain([Free([m EXCEPT !.pqlist = Tail(@), !.unlinked[ei] = @ + 1], ei)
                       EXCEPT !.pqsize = @ - 1])

RECURSIVE proctab_fini(_, _)
proctab_fini(m, pids) ==
    IF pids = {} THEN m
    ELSE LET p == CHOOSE x \in pids : TRUE
         IN proctab_fini(proctab_remove(m, p), pids \ {p})

procmon_fini(m) ==
    LET m1 == PqDrain(m)
    IN IF m1.pqsize # 0 THEN Crash(m, "assert: pqsize == 0")
       ELSE Ret([proctab_fini(m1, Pids) EXCEPT !.config = FALSE], "ok")

(***************************************************************************)
(* The state machine.                                                      *)
(***************************************************************************)
\* no thread is inside a prepq call or the work function.  mutex is the
\* holder of pqmutex; kpc and kei are the kernel thread's position in
\* prepq_append and its image; apc, node, nxt, why, aim, ain and a are the
\* audit thread's position in prepq_lookup, its loop variable, the next
\* pointer the unlinked node keeps, the reason of the pending removal, the
\* two results and the arguments of the exec; wpc, wimg, wenv and wsenv are
\* the worker's position, its image and what its acquisitions will find;
\* grown tells that the queue grew under the running traversal and races
\* collects the unsynchronised accesses that happened
NoThr == [mutex |-> "free",
          kpc |-> "idle", kei |-> NoImage,
          apc |-> "idle", node |-> NoImage, nxt |-> NoImage, why |-> "none",
          aim |-> NoImage, ain |-> NoImage,
          a |-> [pid |-> 0, imagepath |-> "", attr |-> NoAttr, argv |-> NoArgv],
          wpc |-> "idle", wimg |-> NoImage, wenv |-> CHOOSE e \in AcqEnvs : TRUE,
          wsenv |-> CHOOSE e \in AcqEnvs : TRUE,
          grown |-> FALSE, races |-> {}]

\* the process tree of the run is a chain, the parent of pid 1 lies outside
\* the monitored pids and is gone
ChainTree == [p \in Pids |-> IF p = 1 THEN {-1} ELSE {p - 1}]

\* the state after procmon_init
InitState ==
    /\ img = [i \in ImgIds |-> FreeImage]
    /\ pqlist = <<>>
    /\ pqsize = 0
    /\ pqlookup = 0
    /\ pqmiss = 0
    /\ pqdrop = 0
    /\ pqskip = 0
    /\ miss_execsubj = 0
    /\ miss_execinterp = 0
    /\ proctab = [p \in Pids |-> NoProc]
    /\ handles = [i \in ImgIds |-> 0]
    /\ config = TRUE
    /\ crashed = "none"
    /\ appended = [i \in ImgIds |-> 0]
    /\ unlinked = [i \in ImgIds |-> 0]
    /\ pqseen = [i \in ImgIds |-> 0]
    /\ thr = NoThr
    /\ last = NoLast
    /\ steps = 0

Init == InitState /\ ostree = ChainTree

\* the run is MaxSteps handlers long
Alive == crashed = "none" /\ steps < MaxSteps

Running == config /\ Alive

\* the audit records of the run: a binary with attributes, a script run
\* through its interpreter, a script whose record has no argv, and a path
\* that cannot be opened any more
Execs == {[imagepath |-> "/bin/sh", attr |-> 1, argv |-> <<"/bin/sh">>],
          [imagepath |-> "/tmp/x", attr |-> NoAttr, argv |-> <<"/bin/sh", "/tmp/x">>],
          [imagepath |-> "/tmp/x", attr |-> 2, argv |-> NoArgv],
          [imagepath |-> "/tmp/sh", attr |-> NoAttr, argv |-> <<"/tmp/sh">>]}

ExecArgs == {[pid |-> p, imagepath |-> x.imagepath, attr |-> x.attr, argv |-> x.argv]
             : p \in Pids, x \in Execs}

\* handlers whose outcome no later step looks at leave no history
Quiet(m) == [m EXCEPT !.last = NoLast]

Preexec ==
    /\ Running
    /\ FreeSlots(img) # {}
    /\ \E pid \in Pids, path \in KernPaths, env \in AcqEnvs : \E f \in Disk(path) :
          Commit(procmon_kern_preexec(Begin("preexec", 0), pid, path, f, env))

Exec ==
    /\ Running
    /\ \E a \in ExecArgs : \E m \in procmon_exec(Begin("exec", a.pid), a) :
          Commit(m)

Fork ==
    /\ Running
    /\ \E pid \in Pids, childpid \in Pids :
          /\ pid \in Ppids(childpid)
          /\ \E m \in procmon_fork(Begin("fork", pid), pid, childpid) : Commit(m)

Spawn ==
    /\ Running
    /\ \E a \in ExecArgs, childpid \in Pids :
          /\ a.pid \in Ppids(childpid)
          /\ a.attr = 1
          /\ \E m \in procmon_spawn(Begin("spawn", a.pid), a.pid, childpid, a) :
                Commit(m)

Exit ==
    /\ Running
    /\ \E pid \in Pids :
          Commit(procmon_exit([Begin("exit", pid) EXCEPT !.last.stale = proctab_find(Cur, pid)],
                              pid))

Wait4 ==
    /\ Running
    /\ \E pid \in Pids, esrch \in BOOLEAN :
          Commit(Quiet(procmon_wait4(Begin("wait4", 0), pid, esrch)))

Chdir ==
    /\ Running
    /\ \E pid \in Pids, path \in Cwds :
          \E m \in procmon_chdir(Begin("chdir", 0), pid, path) : Commit(Quiet(m))

Preload ==
    /\ Running
    /\ \E pid \in Pids : \E m \in procmon_preloadpid(Begin("preload", 0), pid) : Commit(Quiet(m))

Getcwd ==
    /\ Running
    /\ \E pid \in Pids : \E m \in procmon_getcwd(Begin("getcwd", 0), pid) : Commit(Quiet(m))

ByPid ==
    /\ Running
    /\ \A i \in ImgIds : handles[i] = 0
    /\ \E pid \in Pids : \E m \in image_exec_by_pid(Begin("bypid", 0), pid) : Commit(m)

ReleaseHandle ==
    /\ Alive
    /\ \E i \in ImgIds :
          /\ handles[i] > 0
          /\ Commit(Quiet(Free([Begin("release", 0) EXCEPT !.handles[i] = @ - 1], i)))

Work ==
    /\ Alive
    /\ \E i \in ImgIds :
          /\ img[i].wk = "queued"
          /\ \E env \in AcqEnvs, senv \in AcqEnvs :
                Commit(WorkAndFree(Begin("work", 0), i, env, senv))

Fini ==
    /\ Running
    /\ Commit(procmon_fini(Begin("fini", 0)))

Next ==
    \/ Preexec
    \/ Exec
    \/ Fork
    \/ Spawn
    \/ Exit
    \/ Wait4
    \/ Chdir
    \/ Preload
    \/ Getcwd
    \/ ByPid
    \/ ReleaseHandle
    \/ Work
    \/ Fini

Spec == Init /\ [][Next]_vars

(***************************************************************************)
(* Acquisition on its own: one image (and the script behind it) is made by *)
(* image_exec_new and image_exec_open from any kind of file, acquired on   *)
(* the kernel side and by the worker, with the caches, the hashing, the    *)
(* re-stats and the signature check answering in every way.                *)
(***************************************************************************)
BigBinary == [ino |-> 3, size |-> LargeFile + 1, mtime |-> 0, ctime |-> 0, btime |-> 0,
              sheb |-> FALSE]

AcqFiles == {NoFile, BadFile, Binary, Script, BigBinary}

\* every way the environment can answer; an answer that is never asked for
\* (the hashing after a cache hit, the re-stat after a failed hashing, ...)
\* is left at its quiet value
AcqAllEnvs ==
    {env \in [hit : BOOLEAN, hash : {"ok", "fail"}, dsz : {0, 1},
              st2 : {"fail", "same", "size", "mtime", "ctime", "btime"},
              csig : {"hit", "miss", "enomem"}, cs : {"ok", "fail", "enomem"},
              st3 : {"fail", "same", "size", "ino"}] :
        /\ env.hit => env.hash = "ok"
        /\ (env.hit \/ env.hash = "fail") => env.dsz = 0
        /\ (env.hit \/ env.hash = "fail" \/ env.dsz # 0) => env.st2 = "same"
        /\ env.csig # "miss" => env.cs = "ok"
        /\ (env.csig # "miss" \/ env.cs # "ok") => env.st3 = "same"}

\* the answers to the acquisition of a script, whose signature is not checked
AcqScriptEnvs == {env \in AcqAllEnvs : env.csig = "miss" /\ env.cs = "ok" /\ env.st3 = "same"}

\* lines 77-103 and 179-238: a new image of path (of a recovered process
\* without a path when nopath), opened with attr while f is behind the path
AcqImage(path, nopath, attr, f) ==
    image_exec_open([FreeImage EXCEPT !.refs = 1, !.path = path,
                                      !.flags = IF nopath THEN {"NOPATH", "PIDLOOKUP"} ELSE {}],
                    attr, f)

\* the image in slot 1 is created, opened and submitted, alone or as the
\* interpreter of the script in slot 2
AcqOpen ==
    /\ Alive
    /\ img[1].refs = 0
    /\ \E f \in AcqFiles, attr \in {NoAttr} \cup Attrs, nopath \in BOOLEAN :
          /\ nopath => attr = NoAttr
          /\ \/ img' = [img EXCEPT ![1] = [AcqImage("/bin/sh", nopath, attr, f) EXCEPT
                                              !.wk = "queued"]]
             \/ \E sattr \in {NoAttr, Script.ino} :
                   img' = [img EXCEPT ![1] = [AcqImage("/bin/sh", nopath, NoAttr, f) EXCEPT
                                                 !.wk = "queued", !.script = 2],
                                      ![2] = AcqImage("/tmp/x", FALSE, sattr, Script)]
    /\ last' = [NoLast EXCEPT !.op = "open", !.image = 1]
    /\ steps' = steps + 1
    /\ UNCHANGED <<pqlist, pqsize, pqlookup, pqmiss, pqdrop, pqskip, miss_execsubj,
                   miss_execinterp, proctab, handles, config, crashed, appended, unlinked,
                   pqseen, ostree, thr>>

\* image_exec_acquire on a live image, as procmon_kern_preexec (kern) and
\* image_exec_work (not kern) call it
AcqAcquire ==
    /\ Alive
    /\ \E i \in ImgIds, kern \in BOOLEAN, env \in AcqAllEnvs :
          /\ Live(img, i)
          /\ LET r == Acquire(img[i], kern, env)
             IN /\ img' = [img EXCEPT ![i] = r.e]
                /\ last' = [NoLast EXCEPT !.op = "acquire", !.image = i, !.kern = kern,
                                          !.rv = r.rv, !.ops = r.ops,
                                          !.flags0 = img[i].flags,
                                          !.restat = IF "sys_fdattr" \in r.ops THEN env.st2
                                                     ELSE "none"]
    /\ steps' = steps + 1
    /\ UNCHANGED <<pqlist, pqsize, pqlookup, pqmiss, pqdrop, pqskip, miss_execsubj,
                   miss_execinterp, proctab, handles, config, crashed, appended, unlinked,
                   pqseen, ostree, thr>>

\* image_exec_work on the submitted image
AcqWork ==
    /\ Alive
    /\ img[1].wk = "queued"
    /\ \E env \in AcqAllEnvs, senv \in AcqScriptEnvs :
          Commit(image_exec_work(Begin("work", 0), 1, env, senv))

AcqNext ==
    \/ AcqOpen
    \/ AcqAcquire
    \/ AcqWork

SpecAcq == Init /\ [][AcqNext]_vars

(***************************************************************************)
(* The pre-exec queue on its own: the kernel-callback thread has reported  *)
(* two execs before the first audit record arrives, then callbacks and     *)
(* audit records alternate.                                                *)
(***************************************************************************)
\* the machine after procmon_init
InitM == [img |-> [i \in ImgIds |-> FreeImage], pqlist |-> <<>>, pqsize |-> 0,
          pqlookup |-> 0, pqmiss |-> 0, pqdrop |-> 0, pqskip |-> 0,
          miss_execsubj |-> 0, miss_execinterp |-> 0,
          proctab |-> [p \in Pids |-> NoProc], handles |-> [i \in ImgIds |-> 0],
          config |-> TRUE, crashed |-> "none", appended |-> [i \in ImgIds |-> 0],
          unlinked |-> [i \in ImgIds |-> 0], pqseen |-> [i \in ImgIds |-> 0],
          last |-> NoLast]

\* the machines after n calls of procmon_kern_preexec
RECURSIVE PqStarts(_)
PqStarts(n) ==
    IF n = 0 THEN {InitM}
    ELSE UNION {UNION {{Quiet(procmon_kern_preexec(m, pid, path, f, env))
                        : f \in Disk(path), env \in AcqEnvs}
                       : pid \in Pids, path \in KernPaths}
                : m \in PqStarts(n - 1)}

InitPq ==
    /\ \E m \in PqStarts(MaxImages - 2) :
          /\ img = m.img
          /\ pqlist = m.pqlist
          /\ pqsize = m.pqsize
          /\ appended = m.appended
          /\ unlinked = m.unlinked
    /\ pqlookup = 0
    /\ pqmiss = 0
    /\ pqdrop = 0
    /\ pqskip = 0
    /\ miss_execsubj = 0
    /\ miss_execinterp = 0
    /\ proctab = [p \in Pids |-> NoProc]
    /\ handles = [i \in ImgIds |-> 0]
    /\ config = TRUE
    /\ crashed = "none"
    /\ pqseen = [i \in ImgIds |-> 0]
    /\ thr = NoThr
    /\ last = NoLast
    /\ steps = 0
    /\ ostree = ChainTree

PqNext ==
    \/ Preexec
    \/ Exec

SpecPq == InitPq /\ [][PqNext]_vars

(***************************************************************************)
(* Recovery under any answer of the operating system: sys_pidbsdinfo may   *)
(* report any monitored pid, the pid itself or a pid that is gone as the   *)
(* parent of a pid.                                                        *)
(***************************************************************************)
AnyTrees == {[p \in Pids |-> {par[p]}] : par \in [Pids -> {-1} \cup Pids]}

InitTree == InitState /\ ostree \in AnyTrees

TreeNext ==
    \/ Preload
    \/ Exec
    \/ Fork
    \/ Exit
    \/ Work

SpecTree == InitTree /\ [][TreeNext]_vars

(***************************************************************************)
(* The fd contexts on their own: processes enter the table by              *)
(* procmon_preloadpid and leave it by procmon_exit, sockmon and filemon    *)
(* call in between.                                                        *)
(***************************************************************************)
SockCall(op, pid, fd) == [Begin(op, pid) EXCEPT !.last.fd = fd]

SockCreate ==
    /\ Running
    /\ \E pid \in Pids, fd \in Fds, proto \in Protos :
          \E m \in procmon_socket_create(SockCall("socket_create", pid, fd), pid, fd, proto) :
             Commit(m)

SockBind ==
    /\ Running
    /\ \E pid \in Pids, fd \in Fds, addr \in Addrs, port \in Ports :
          LET r == procmon_socket_bind(SockCall("socket_bind", pid, fd), pid, fd, addr, port)
          IN Commit([r.m EXCEPT !.last.out = <<r.proto>>])

SockState ==
    /\ Running
    /\ \E pid \in Pids, fd \in Fds :
          \E r \in procmon_socket_state(Cur, pid, fd) :
             Commit([SockCall("socket_state", pid, fd) EXCEPT
                        !.last.out = <<r.proto, r.addr, r.port>>])

FileOpen ==
    /\ Running
    /\ \E pid \in Pids, fd \in Fds :
          \E m \in procmon_file_open(SockCall("file_open", pid, fd), pid, fd, "/tmp/x") :
             Commit(m)

FdClose ==
    /\ Running
    /\ \E pid \in Pids, fd \in Fds :
          Commit(procmon_fd_close(SockCall("fd_close", pid, fd), pid, fd))

SockNext ==
    \/ Preload
    \/ Exit
    \/ SockCreate
    \/ SockBind
    \/ SockState
    \/ FileOpen
    \/ FdClose

SpecSock == Init /\ [][SockNext]_vars

(***************************************************************************)
(* Recovery on its own: procmon_preloadpid (lines 1146-1156) calls         *)
(* procmon_proc_from_pid (lines 544-616) for a pid that is not in the      *)
(* table, under any parent relation sys_pidbsdinfo can report; processes   *)
(* exit and the workers run in between.                                    *)
(***************************************************************************)
Recover ==
    /\ Running
    /\ \E pid \in Pids :
          \E m \in procmon_preloadpid(
                     [Begin("recover", pid)
                        EXCEPT !.last.absent0 = {p \in Pids : ~proctab[p].present}], pid) :
             Commit(m)

RecNext ==
    \/ Recover
    \/ Exit
    \/ Work

SpecRec == InitTree /\ [][RecNext]_vars

(***************************************************************************)
(* The three threads step by step: the kernel thread inside prepq_append   *)
(* (lines 728-734), the audit thread inside prepq_lookup (lines 758-826)   *)
(* and the rest of procmon_exec, and a worker inside image_exec_work       *)
(* (lines 467-490).  One step is one access to the shared queue, its size  *)
(* or its mutex.                                                           *)
(***************************************************************************)
\* line 732 left out
prepq_append_uncounted(m, i) == m

\* line 731
prepq_append_insert(m, i) == [m EXCEPT !.pqlist = Append(@, i), !.appended[i] = @ + 1]

\* line 732
prepq_append_count(m, i) == [m EXCEPT !.pqsize = @ + 1]

\* line 747
prepq_remove_unlink(m, i) == [m EXCEPT !.pqlist = RemoveFirst(@, i), !.unlinked[i] = @ + 1]

\* line 748
prepq_remove_count(m, i) == [m EXCEPT !.pqsize = @ - 1]

\* node->next of a linked node
NodeNext(q, i) ==
    IF \E k \in 1..(Len(q) - 1) : q[k] = i
    THEN q[(CHOOSE k \in 1..(Len(q) - 1) : q[k] = i) + 1]
    ELSE NoImage

\* the images whose refs line 171 reads, without their refsmutex
RECURSIVE PruneRefsReads(_, _, _)
PruneRefsReads(im, i, level) ==
    IF im[i].prev = NoImage \/ level >= ancestors THEN {}
    ELSE {i} \cup (IF im[i].refs = 1 THEN PruneRefsReads(im, im[i].prev, level + 1) ELSE {})

\* a step inside a call: the handler count stays
Stay(m) == Keep(m) /\ UNCHANGED <<steps, ostree>>

\* procmon_kern_preexec up to the call of prepq_append, lines 1112-1135
KStart ==
    /\ Running
    /\ thr.kpc = "idle"
    /\ FreeSlots(img) # {}
    /\ \E pid \in Pids, path \in KernPaths, env \in AcqEnvs : \E f \in Disk(path) :
          /\ Store([KernImage(Cur, pid, path, f, env) EXCEPT !.last = last])
          /\ thr' = [thr EXCEPT !.kpc = "lock", !.kei = Malloc(img)]
    /\ UNCHANGED ostree

\* line 730
KLock ==
    /\ Alive
    /\ thr.kpc = "lock"
    /\ thr.mutex = "free"
    /\ Stay(Cur)
    /\ thr' = [thr EXCEPT !.mutex = "kern", !.kpc = "insert"]

\* line 731
KInsert ==
    /\ Alive
    /\ thr.kpc = "insert"
    /\ Stay(prepq_append_insert(Cur, thr.kei))
    /\ thr' = [thr EXCEPT !.kpc = "count",
                          !.grown = @ \/ thr.apc \in {"node", "lock", "unlink", "count",
                                                      "unlock", "next"}]

\* line 732
KCount ==
    /\ Alive
    /\ thr.kpc = "count"
    /\ Stay(prepq_append_count(Cur, thr.kei))
    /\ thr' = [thr EXCEPT !.kpc = "unlock"]

\* line 733
KUnlock ==
    /\ Alive
    /\ thr.kpc = "unlock"
    /\ Stay(Cur)
    /\ thr' = [thr EXCEPT !.mutex = "free", !.kpc = "idle", !.kei = NoImage]

\* procmon_exec up to the head of prepq_lookup's loop, lines 836-873 and
\* 763-764
ABegin ==
    /\ Running
    /\ thr.apc = "idle"
    /\ \E a \in ExecArgs : \E r \in Subject(Begin("exec", a.pid), a.pid) :
          IF ~r.ok
          THEN /\ Store(ExecNoSubject(r.m, r.enomem))
               /\ UNCHANGED thr
          ELSE LET m == ExecBegin(Cur, r.m, a)
               IN /\ Store([m EXCEPT !.pqlookup = @ + 1,
                                     !.pqseen = [i \in ImgIds |->
                                                   IF \E k \in 1..Len(m.pqlist) : m.pqlist[k] = i
                                                   THEN @[i] + 1 ELSE @[i]]])
                  /\ thr' = [thr EXCEPT !.apc = "node", !.a = a, !.why = "none",
                                        !.node = IF m.pqlist = <<>> THEN NoImage
                                                 ELSE Head(m.pqlist),
                                        !.aim = NoImage, !.ain = NoImage, !.grown = FALSE]
    /\ UNCHANGED ostree

\* one pass of the loop body up to a removal, lines 765-816
ANode ==
    /\ Alive
    /\ thr.apc = "node"
    /\ IF thr.node = NoImage
       THEN Stay(Cur) /\ thr' = [thr EXCEPT !.apc = "done"]
       ELSE LET ei == thr.node
                e == img[ei]
                ttl == e.pqttl + 1
            IN IF thr.aim = NoImage /\ PqMatchImage(e, thr.a)
               THEN Stay(Cur) /\ thr' = [thr EXCEPT !.apc = "lock", !.why = "image"]
               ELSE IF thr.aim # NoImage /\ PqMatchInterp(e, thr.a)
               THEN Stay(Cur) /\ thr' = [thr EXCEPT !.apc = "lock", !.why = "interp"]
               ELSE /\ Stay([Cur EXCEPT !.pqskip = @ + 1, !.img[ei].pqttl = ttl,
                                        !.last.skipped = @ \cup {[image |-> ei,
                                                                  pqttl |-> ttl - 1]}])
                    /\ thr' = IF PqExpired(ttl)
                              THEN [thr EXCEPT !.apc = "lock", !.why = "drop"]
                              ELSE [thr EXCEPT !.apc = "next"]

\* line 746
ALock ==
    /\ Alive
    /\ thr.apc = "lock"
    /\ thr.mutex = "free"
    /\ Stay(Cur)
    /\ thr' = [thr EXCEPT !.mutex = "audit", !.apc = "unlink"]

\* line 747
AUnlink ==
    /\ Alive
    /\ thr.apc = "unlink"
    /\ Stay(prepq_remove_unlink(Cur, thr.node))
    /\ thr' = [thr EXCEPT !.apc = "count", !.nxt = NodeNext(pqlist, thr.node)]

\* line 748
ACount ==
    /\ Alive
    /\ thr.apc = "count"
    /\ Stay(prepq_remove_count(Cur, thr.node))
    /\ thr' = [thr EXCEPT !.apc = "unlock"]

\* line 749, and what follows the removal: lines 785-793, 805-806 or
\* 821-822
AUnlock ==
    /\ Alive
    /\ thr.apc = "unlock"
    /\ CASE thr.why = "image" ->
              /\ Stay(Cur)
              /\ thr' = [thr EXCEPT !.mutex = "free", !.aim = thr.node,
                                    !.apc = IF "SHEBANG" \in img[thr.node].flags
                                               /\ Len(thr.a.argv) >= 2
                                            THEN "next" ELSE "done"]
         [] thr.why = "interp" ->
              /\ Stay(Cur)
              /\ thr' = [thr EXCEPT !.mutex = "free", !.ain = thr.node, !.apc = "done"]
         [] OTHER ->
              /\ Stay([Free(Cur, thr.node) EXCEPT !.pqdrop = @ + 1,
                                                  !.last.dropped = @ \cup {thr.node}])
              /\ thr' = [thr EXCEPT !.mutex = "free", !.apc = "next"]

\* line 765: node = node->next, read without pqmutex
ANext ==
    /\ Alive
    /\ thr.apc = "next"
    /\ \E n \in FreedNext :
          LET to == IF thr.why = "none" THEN NodeNext(pqlist, thr.node)
                    ELSE IF thr.why = "drop" /\ n = "null" THEN NoImage
                    ELSE thr.nxt
          IN /\ thr.why # "drop" => n = "intact"
             /\ IF thr.why = "drop" /\ n = "wild"
                THEN Stay(Crash(Cur, "fault: next of a freed node")) /\ UNCHANGED thr
                ELSE /\ Stay(Cur)
                     /\ thr' = [thr EXCEPT !.apc = "node", !.node = to, !.why = "none",
                                           !.nxt = NoImage]

\* the rest of procmon_exec, lines 875-1022.  Line 1009 reads the flags of
\* the image the process had, which a worker may be acquiring
ADone ==
    /\ Alive
    /\ thr.apc = "done"
    /\ \E m \in ExecImage([m |-> Cur, image |-> thr.aim, interp |-> thr.ain], thr.a) :
          LET prev == proctab[thr.a.pid].image_exec
              racy == /\ m.crashed = "none"
                      /\ m.last.ret = "ok"
                      /\ thr.wpc = "working"
                      /\ prev = thr.wimg
                      /\ image_exec_acquire(img[prev], FALSE, thr.wenv).flags
                            # img[prev].flags
          IN /\ Stay(m)
             /\ thr' = [thr EXCEPT !.apc = "idle", !.node = NoImage, !.why = "none",
                                   !.aim = NoImage, !.ain = NoImage, !.a = NoThr.a,
                                   !.races = IF racy
                                             THEN @ \cup {[kind |-> "flags", image |-> prev]}
                                             ELSE @]

\* a worker takes an image off the work queue and enters image_exec_work
WBegin ==
    /\ Alive
    /\ thr.wpc = "idle"
    /\ \E i \in ImgIds :
          /\ img[i].wk = "queued"
          /\ \E env \in AcqEnvs, senv \in AcqEnvs :
                thr' = [thr EXCEPT !.wpc = "working", !.wimg = i, !.wenv = env,
                                   !.wsenv = senv]
    /\ Store(Cur)
    /\ UNCHANGED ostree

\* image_exec_work returns and the pipeline frees the image.  Line 171 has
\* read refs of the images on the pruned path without their refsmutex
WEnd ==
    /\ Alive
    /\ thr.wpc = "working"
    /\ LET i == thr.wimg
           s == img[i].script
           im1 == [img EXCEPT ![i] = image_exec_close(image_exec_acquire(@, FALSE, thr.wenv))]
           im2 == IF s # NoImage
                  THEN [im1 EXCEPT ![s] = image_exec_close(image_exec_acquire(@, FALSE,
                                                                               thr.wsenv))]
                  ELSE im1
       IN /\ Stay([WorkAndFree(Cur, i, thr.wenv, thr.wsenv) EXCEPT !.last = last])
          /\ thr' = [thr EXCEPT !.wpc = "idle", !.wimg = NoImage, !.wenv = NoThr.wenv,
                                !.wsenv = NoThr.wsenv,
                                !.races = @ \cup {[kind |-> "refs", image |-> x]
                                                  : x \in PruneRefsReads(im2, i, 0)}]

\* procmon_fini, called once the kernel thread has ended and no event is
\* being handled; line 1359 destroys pqmutex
ThrFini ==
    /\ Running
    /\ thr.kpc = "idle" /\ thr.apc = "idle" /\ thr.wpc = "idle"
    /\ Store(procmon_fini(Begin("fini", 0)))
    /\ thr' = [thr EXCEPT !.mutex = "destroyed"]
    /\ UNCHANGED ostree

ThrNext ==
    \/ KStart
    \/ KLock
    \/ KInsert
    \/ KCount
    \/ KUnlock
    \/ ABegin
    \/ ANode
    \/ ALock
    \/ AUnlink
    \/ ACount
    \/ AUnlock
    \/ ANext
    \/ ADone
    \/ WBegin
    \/ WEnd
    \/ ThrFini

SpecThr == Init /\ [][ThrNext]_vars

(***************************************************************************)
(* Properties.                                                             *)
(***************************************************************************)
InQueue(i) == \E k \in 1..Len(pqlist) : pqlist[k] = i

\* the holders of image i: process-table pointers, prepq nodes, a pending
\* worker submission, prev and script links of live images, handles
Holders(i) ==
    Cardinality({p \in Pids : proctab[p].present /\ proctab[p].image_exec = i})
    + Cardinality({k \in 1..Len(pqlist) : pqlist[k] = i})
    + (IF img[i].wk = "queued" THEN 1 ELSE 0)
    + Cardinality({j \in ImgIds : Live(img, j) /\ img[j].prev = i})
    + Cardinality({j \in ImgIds : Live(img, j) /\ img[j].script = i})
    + handles[i]

ExecReturned == last.op \in {"exec", "spawn"} /\ last.looked /\ crashed = "none"

\* C1: in every reachable state the refs counter of every image slot equals
\* the number of its holders: a live image has exactly as many references as
\* holders, a freed slot has no holder left, and no slot was freed twice.
C1_RefsAreHolders ==
    \A i \in ImgIds : img[i].refs >= 0 /\ img[i].refs = Holders(i)

\* an image held by a caller of image_exec_by_pid, by the table and as the
\* prev of a later image
C1_SharedImage ==
    \E i \in ImgIds : /\ img[i].refs >= 3
                      /\ handles[i] = 1
                      /\ \E j \in ImgIds : Live(img, j) /\ img[j].prev = i

\* C2: every pid present in the process table has a non-null current image
\* and a non-null cwd.
C2_TableEntriesComplete ==
    \A p \in Pids : proctab[p].present =>
        proctab[p].image_exec # NoImage /\ proctab[p].cwd # NULL

\* C3: no sequence of handlers reaches a failed assertion or a dereference
\* of a null image, prev or cwd pointer.
C3_NoAssertNoNull ==
    crashed \notin {"assert: image_exec != prev_image_exec", "assert: refs == 1",
                    "assert: parent->cwd", "assert: parent->image_exec",
                    "assert: image (image_exec_ref)", "assert: pqsize == 0",
                    "fault: strdup of a null cwd", "fault: flags of a null prev"}

C5_QueueYoung ==
    /\ \A k \in 1..Len(pqlist) : img[pqlist[k]].pqttl < MAXPQTTL
    /\ ExecReturned =>
          \A s \in last.skipped :
             IF s.pqttl + 1 = MAXPQTTL
             THEN /\ s.image \in last.dropped
                  /\ ~InQueue(s.image)
                  /\ img[s.image].refs = 0 \/ appended[s.image] = 0
             ELSE /\ s.image \notin last.dropped
                  /\ InQueue(s.image)
                  /\ img[s.image].pqttl = s.pqttl + 1

\* a lookup that evicted one entry and aged another
C5_EvictedAndAged ==
    /\ ExecReturned
    /\ last.dropped # {}
    /\ \E s \in last.skipped : InQueue(s.image) /\ img[s.image].pqttl = 1

\* C6: when image_exec_work has finished with an image, the chain of prev
\* links behind that image holds at most config->ancestors images.
C6_ChainBounded == last.op = "work" => last.chain <= ancestors

\* C6, amended: the bound holds when the worked image owned its path
\* exclusively (refs = 1 on every level above the pruned one) on entry.
C6_ExclusiveChainBounded == (last.op = "work" /\ last.excl) => last.chain <= ancestors

\* image_exec_work cut a chain that was longer than config->ancestors
C6_ChainCut ==
    last.op = "work" /\ last.excl /\ last.chain0 > ancestors /\ last.chain = ancestors

\* C7: if a live image X has prev = P and P carries NOLOG_KIDS, then X
\* carries both NOLOG and NOLOG_KIDS.
C7_NologKidsMonotone ==
    \A i \in ImgIds :
       (Live(img, i) /\ img[i].prev # NoImage /\ "NOLOG_KIDS" \in img[img[i].prev].flags)
       => {"NOLOG", "NOLOG_KIDS"} \subseteq img[i].flags

\* C8: after a successful procmon_exec the exec'd image is the lookup's hit or
\* a fresh image of imagepath; with SHEBANG the current image is the
\* interpreter and its script is the exec'd image, otherwise the current
\* image is the exec'd image without a script; the current image's prev is
\* the image that was current before the exec.
C8_SpliceShape ==
    (ExecReturned /\ last.ret = "ok") =>
       LET image == last.image
           cur == proctab[last.pid].image_exec
       IN /\ image # NoImage /\ cur # NoImage
          /\ IF last.hit # NoImage THEN image = last.hit
             ELSE img[image].path = last.imagepath
          /\ IF "SHEBANG" \in img[image].flags
             THEN cur # image /\ cur = last.interp /\ img[cur].script = image
             ELSE cur = image /\ img[cur].script = NoImage
          /\ img[cur].prev = last.prevcur
          /\ last.prevcur # NoImage

\* a script was exec'd and spliced behind its interpreter
C8_ScriptSpliced ==
    /\ ExecReturned /\ last.ret = "ok"
    /\ "SHEBANG" \in img[last.image].flags
    /\ img[proctab[last.pid].image_exec].script = last.image

\* C9: when procmon_exec runs for a pid in the table and the queue holds an
\* entry matching the record's image slot, a matching entry is removed from
\* the queue and is the image of the exec, exactly one submission is made
\* and pqmiss is unchanged (stated for the execs that are not dropped).
C9_HitAsStated ==
    (ExecReturned /\ last.intable /\ last.matchq # {} /\ last.ret = "ok") =>
       /\ last.hit \in last.matchq
       /\ ~InQueue(last.hit)
       /\ last.image = last.hit
       /\ Len(last.sub) = 1
       /\ pqmiss = last.pqmiss0

\* C9, amended: when prepq_lookup returns a queued entry as the image for a
\* pid in the table, that entry matched and is off the queue; pqmiss is
\* unchanged unless the entry is a script whose interpreter the lookup did
\* not return (then it is incremented once); the exec ends in one submission
\* of the current image with the entry as the exec'd image, or is dropped
\* (no interpreter, failed allocation) with no submission.
C9_HitSpliced ==
    (ExecReturned /\ last.intable /\ last.hit # NoImage) =>
       /\ last.hit \in last.matchq
       /\ ~InQueue(last.hit)
       /\ last.ret \in {"ok", "oom", "miss_execinterp"}
       /\ last.ret = "ok" =>
             /\ last.image = last.hit
             /\ last.sub = <<proctab[last.pid].image_exec>>
             /\ pqmiss = last.pqmiss0
                         + (IF "SHEBANG" \in img[last.hit].flags /\ last.pqinterp = NoImage
                            THEN 1 ELSE 0)
       /\ last.ret = "miss_execinterp" =>
             last.sub = <<>> /\ pqmiss = last.pqmiss0 + 1
       /\ last.ret = "oom" =>
             last.sub = <<>> /\ pqmiss \in {last.pqmiss0, last.pqmiss0 + 1}

\* a record with attributes hit a queued entry and the exec was submitted
C9_AttrHit ==
    /\ ExecReturned /\ last.intable /\ last.ret = "ok"
    /\ last.hit # NoImage
    /\ last.attr # NoAttr
    /\ pqmiss = last.pqmiss0

\* C10: when procmon_exec runs for a pid in the table and no queued entry
\* matches, pqmiss is incremented, a fresh image of imagepath becomes the
\* process's current image and exactly one submission is made (stated for
\* the execs that are not dropped).
C10_MissAsStated ==
    (ExecReturned /\ last.intable /\ last.matchq = {} /\ last.ret = "ok") =>
       /\ pqmiss = last.pqmiss0 + 1
       /\ last.image # NoImage
       /\ img[last.image].path = last.imagepath
       /\ proctab[last.pid].image_exec = last.image
       /\ Len(last.sub) = 1

\* C10, amended: when prepq_lookup returns no image for a pid in the table,
\* pqmiss is incremented; unless the exec is dropped (failed allocation, no
\* interpreter) without a submission, a fresh image of imagepath, opened
\* with attr, is the exec'd image: if it is no script it is the current
\* image and pqmiss went up by one, if it is a script it is the script of
\* the current (interpreter) image and pqmiss went up by two; the current
\* image is the one submission.
C10_MissSpliced ==
    (ExecReturned /\ last.intable /\ last.hit = NoImage) =>
       /\ pqmiss >= last.pqmiss0 + 1
       /\ last.ret \in {"ok", "oom", "miss_execinterp"}
       /\ last.ret = "ok" =>
             LET image == last.image
                 cur == proctab[last.pid].image_exec
             IN /\ image # NoImage
                /\ image \notin last.matchq
                /\ img[image].path = last.imagepath
                /\ last.attr # NoAttr =>
                      /\ img[image].stat.ino = last.attr
                      /\ img[image].flags \cap {"STAT", "ATTR"} # {}
                /\ IF "SHEBANG" \in img[image].flags
                   THEN /\ cur # image /\ img[cur].script = image
                        /\ pqmiss = last.pqmiss0 + 2
                   ELSE cur = image /\ pqmiss = last.pqmiss0 + 1
                /\ last.sub = <<cur>>
       /\ last.ret # "ok" => last.sub = <<>> /\ pqmiss <= last.pqmiss0 + 2

\* a record hit nothing and its fresh image became the current image
C10_FreshImage ==
    /\ ExecReturned /\ last.intable /\ last.ret = "ok"
    /\ last.hit = NoImage
    /\ proctab[last.pid].image_exec = last.image
    /\ pqmiss = last.pqmiss0 + 1

C12_NoInterpDropped ==
    [][/\ (last'.op \in {"exec", "spawn"} /\ last'.ret = "miss_execinterp") =>
             /\ miss_execinterp' = miss_execinterp + 1
             /\ last'.pqinterp = NoImage
             /\ last'.image # NoImage
             /\ img'[last'.image].refs = 0
             /\ ~(\E k \in 1..Len(pqlist') : pqlist'[k] = last'.image)
             /\ \A q \in Pids : proctab'[q].present => proctab'[q].image_exec # last'.image
             /\ IF last'.op = "exec" /\ last'.intable
                THEN proctab' = proctab /\ last'.sub = <<>>
                ELSE /\ proctab'[last'.pid].present
                     /\ proctab'[last'.pid].image_exec = last'.prevcur
                     /\ \A k \in 1..Len(last'.sub) :
                           "PIDLOOKUP" \in img'[last'.sub[k]].flags
       /\ (/\ last'.op \in {"exec", "spawn"} /\ last'.ret = "ok"
           /\ "SHEBANG" \in img'[last'.image].flags
           /\ last'.pqinterp = NoImage)
          => /\ ~last'.noargv
             /\ img'[proctab'[last'.pid].image_exec].path \in RealPaths
             /\ miss_execinterp' = miss_execinterp
      ]_vars

\* a queued script was matched for a pid in the table, its interpreter was
\* neither queued nor resolvable, and the exec was dropped
C12_QueuedScriptDropped ==
    /\ last.op = "exec" /\ last.ret = "miss_execinterp" /\ last.intable
    /\ last.hit # NoImage /\ last.image = last.hit
    /\ img[last.hit].refs = 0

\* C13: when procmon_exec finds its subject pid neither in the table nor
\* recoverable because the process is gone, miss_execsubj is incremented by
\* one, nothing is submitted, the pid has no table entry afterwards, and the
\* table, the images and the prepq (its entries, their pqttl, pqlookup,
\* pqmiss, pqdrop, pqskip) are as they were before the call.
C13_GoneSubjectDropped ==
    [][(last'.op = "exec" /\ last'.ret = "miss_execsubj") =>
          /\ ~proctab[last'.pid].present
          /\ ~proctab'[last'.pid].present
          /\ miss_execsubj' = miss_execsubj + 1
          /\ last'.sub = <<>>
          /\ ~last'.looked
          /\ UNCHANGED <<proctab, img, pqlist, pqsize, pqlookup, pqmiss, pqdrop,
                         pqskip, miss_execinterp>>
      ]_vars

\* an exec for a gone pid was dropped while an entry waited on the prepq
C13_GoneWithQueue ==
    /\ last.op = "exec" /\ last.ret = "miss_execsubj"
    /\ miss_execsubj = 1
    /\ pqlist # <<>>
    /\ \A q \in Pids : ~proctab[q].present

\* C14: if the re-stat after hashing differs from the first stat in size,
\* mtime, ctime or btime, or the bytes hashed differ from stat.size, then
\* image_exec_acquire returns -1 with DONE set and HASHES not set, makes no
\* cachehash_put and no code-signature lookup or computation; and an image
\* carries HASHES only if it has STAT.
C14_ChangedFileNoHashes ==
    \A i \in ImgIds : Live(img, i) =>
       /\ "HASHES" \in img[i].flags =>
             "STAT" \in img[i].flags /\ img[i].hashes \in {"cache", "file"}
       /\ \A kern \in BOOLEAN, env \in AcqAllEnvs :
             LET r == Acquire(img[i], kern, env)
             IN (/\ "sys_fdattr" \in r.ops \/ "hashes_fd" \in r.ops
                 /\ env.dsz # 0 \/ env.st2 \in {"size", "mtime", "ctime", "btime"})
                => /\ r.rv = -1
                   /\ "DONE" \in r.e.flags
                   /\ "HASHES" \notin r.e.flags
                   /\ r.e.fd = -1
                   /\ r.e.codesign = img[i].codesign
                   /\ r.ops \cap {"cachehash_put", "cachecsig_get", "codesign_new",
                                  "cachecsig_put"} = {}

\* the file changed while it was hashed: the image is DONE without HASHES
C14_ChangedWhileHashed ==
    /\ last.op = "acquire"
    /\ last.restat \in {"size", "mtime", "ctime", "btime"}
    /\ last.rv = -1
    /\ {"DONE", "STAT"} \subseteq img[last.image].flags
    /\ "HASHES" \notin img[last.image].flags
    /\ img[last.image].hashes = "file"

\* the images behind i along prev (at most fuel links are followed)
RECURSIVE Ancestors(_, _, _)
Ancestors(im, i, fuel) ==
    IF fuel = 0 \/ im[i].prev = NoImage \/ ~Live(im, im[i].prev) THEN {}
    ELSE {im[i].prev} \cup Ancestors(im, im[i].prev, fuel - 1)

C16_AcquireIdempotent ==
    \A i \in ImgIds : Live(img, i) =>
       \A kern \in BOOLEAN, env \in AcqAllEnvs :
          LET r == Acquire(img[i], kern, env)
          IN /\ "DONE" \in img[i].flags => r = [e |-> img[i], rv |-> 0, ops |-> {}]
             /\ "HASHES" \in img[i].flags =>
                   /\ r.e.hashes = img[i].hashes
                   /\ "HASHES" \in r.e.flags
                   /\ r.ops \cap {"cachehash_get", "hashes_fd", "sys_fdattr",
                                  "cachehash_put"} = {}

\* the worker's acquire on an image that was already DONE with HASHES
C16_AcquiredAgain ==
    /\ last.op = "acquire" /\ ~last.kern
    /\ {"DONE", "HASHES"} \subseteq last.flags0
    /\ last.rv = 0 /\ last.ops = {}
    /\ img[last.image].flags = last.flags0

\* C17: when image_exec_work has returned, the image it worked on and that
\* image's script (if any) have DONE set and their fd closed (-1), whatever
\* their flags and fd were on entry.
C17_WorkCompletes ==
    last.op = "work" =>
       LET i == last.image
           s == img[i].script
       IN /\ "DONE" \in img[i].flags
          /\ img[i].fd = -1
          /\ s # NoImage => "DONE" \in img[s].flags /\ img[s].fd = -1

\* the worker finished a large binary, whose kernel-side acquisition had been
\* postponed, together with its script
C17_DeferredFinished ==
    /\ last.op = "work"
    /\ img[last.image].stat.size > LargeFile
    /\ img[last.image].script # NoImage
    /\ {"DONE", "HASHES"} \subseteq img[last.image].flags
    /\ {"DONE", "HASHES", "SHEBANG"} \subseteq img[img[last.image].script].flags
    /\ img[img[last.image].script].fd = -1

\* which image pid p has as its current image in machine m: the image by its
\* content (not by its address), with the path of its script
CurrentImage(m, p) ==
    IF ~m.proctab[p].present \/ m.proctab[p].image_exec = NoImage THEN <<>>
    ELSE LET e == m.img[m.proctab[p].image_exec]
         IN <<e.path, e.flags, e.hashes, e.stat,
              IF e.script = NoImage THEN NULL ELSE m.img[e.script].path>>

\* the current images of all pids after procmon_exec for a, then for b, both
\* execs returning with their image spliced
ExecThenExec(a, b) ==
    {[p \in Pids |-> CurrentImage(m2, p)] :
       m2 \in UNION {{n \in procmon_exec([m1 EXCEPT !.last = [NoLast EXCEPT !.op = "exec",
                                                                           !.pid = b.pid]], b) :
                        n.crashed = "none" /\ n.last.ret = "ok"} :
                     m1 \in {n \in procmon_exec(Begin("exec", a.pid), a) :
                               n.crashed = "none" /\ n.last.ret = "ok"}}}

\* C18: two adjacent execs for different pids that are both in the table
\* leave every pid with the same current image in either order.
C18_PidsIndependent ==
    (Running /\ steps < MaxSteps - 1) =>
       \A a, b \in ExecArgs :
          (a.pid # b.pid /\ proctab[a.pid].present /\ proctab[b.pid].present)
          => ExecThenExec(a, b) = ExecThenExec(b, a)

\* C19: procmon_exit (also reached from procmon_wait4 when the pid is gone)
\* leaves the pid absent from the table, releases the entry's reference on
\* its current image once, leaves the entries of all other pids and
\* everything else as they are, changes nothing for a pid that is not in the
\* table, and a second call changes nothing more.
C19_ExitIdempotent ==
    /\ last.op = "exit" => ~proctab[last.pid].present
    /\ \A pid \in Pids :
          LET m0 == Begin("exit", pid)
              m1 == procmon_exit(m0, pid)
              m2 == procmon_exit(m1, pid)
              i == proctab[pid].image_exec
          IN /\ m2 = m1
             /\ procmon_wait4(m0, pid, TRUE) = m1
             /\ procmon_wait4(m0, pid, FALSE) = Ret(m0, "alive")
             /\ ~m1.proctab[pid].present
             /\ \A q \in Pids \ {pid} : m1.proctab[q] = proctab[q]
             /\ [m1 EXCEPT !.img = img, !.proctab = proctab] = Ret(m0, "ok")
             /\ IF proctab[pid].present /\ i # NoImage
                THEN IF img[i].refs > 1
                     THEN m1.img = [img EXCEPT ![i].refs = @ - 1]
                     ELSE /\ m1.img[i].refs = 0
                          /\ \A j \in ImgIds : m1.img[j].refs <= img[j].refs
                ELSE m1.img = img

\* an exit removed the entry of a pid while another pid stayed in the table
C19_ExitedOne ==
    /\ last.op = "exit" /\ last.stale
    /\ ~proctab[last.pid].present
    /\ \E q \in Pids : proctab[q].present

(***************************************************************************)
(* C20: socket state round trip.                                           *)
(***************************************************************************)
\* the calls that may come between a bind and a later procmon_socket_state
\* without closing, re-creating or reopening fd of pid and without removing
\* pid: every call on another fd or another pid, and a preload
OtherCalls(m, pid, fd) ==
    LET others == {x \in Pids \X Fds : x # <<pid, fd>>}
    IN UNION {UNION {procmon_socket_create(m, x[1], x[2], proto) : proto \in Protos}
                \cup {procmon_socket_bind(m, x[1], x[2], addr, port).m
                       : addr \in Addrs, port \in Ports}
                \cup procmon_file_open(m, x[1], x[2], "/tmp/x")
                \cup {procmon_fd_close(m, x[1], x[2])}
              : x \in others}
       \cup {procmon_exit(m, p) : p \in Pids \ {pid}}
       \cup UNION {procmon_preloadpid(m, p) : p \in Pids}

\* ... and a second bind of the same fd
Rebinds(m, pid, fd) ==
    {procmon_socket_bind(m, pid, fd, addr, port).m : addr \in Addrs, port \in Ports}

\* bind and state find nothing at fd of pid and change nothing
NoSocketState(m, pid, fd) ==
    /\ \A addr \in Addrs, port \in Ports :
          LET b == procmon_socket_bind(m, pid, fd, addr, port)
          IN b.proto = 0 /\ b.m = m
    /\ \A r \in procmon_socket_state(m, pid, fd) : r.proto = 0 /\ r.addr = NULL

\* C20 as stated: for a pid in the process table, after procmon_socket_create
\* and procmon_socket_bind, bind reports the proto of create and
\* procmon_socket_state returns exactly (proto, addr, port) until the fd is
\* closed, re-created, reopened as a file or the process is removed; for an
\* unknown pid, an unknown fd or a file context bind and state report proto 0
\* and addr NULL and change nothing.
C20_RoundTripAlways ==
    \A pid \in Pids, fd \in Fds :
       /\ proctab_find(Cur, pid) =>
             \A proto \in Protos, addr \in Addrs, port \in Ports :
                \A m1 \in procmon_socket_create(Cur, pid, fd, proto) :
                   LET b == procmon_socket_bind(m1, pid, fd, addr, port)
                   IN /\ b.proto = proto
                      /\ \A m3 \in {b.m} \cup OtherCalls(b.m, pid, fd) \cup Rebinds(b.m, pid, fd) :
                            procmon_socket_state(m3, pid, fd)
                               = {[proto |-> proto, addr |-> addr, port |-> port]}
       /\ (~proctab_find(Cur, pid) \/ proc_getfd(Cur, pid, fd).flags # "SOCKET")
             => NoSocketState(Cur, pid, fd)

\* C20, amended: for a pid in the process table, unless the allocation of a
\* new context failed in procmon_socket_create (then nothing is stored and
\* bind and state report proto 0), bind after create reports the proto of
\* create and stores addr and port; procmon_socket_state then returns proto
\* and, for a non-empty addr, addr and port, for an empty addr NULL and no
\* port, until the fd is closed, re-created, reopened as a file, bound again
\* or the process is removed (no other call changes the context of a
\* socket); for an unknown pid, an unknown fd or a file context bind and
\* state report proto 0 and addr NULL and change nothing.
C20_RoundTripStored ==
    \A pid \in Pids, fd \in Fds :
       /\ proctab_find(Cur, pid) =>
             \A proto \in Protos, addr \in Addrs, port \in Ports :
                \A m1 \in procmon_socket_create(Cur, pid, fd, proto) :
                   LET b == procmon_socket_bind(m1, pid, fd, addr, port)
                   IN IF m1.last.ret = "oom"
                      THEN /\ proc_getfd(Cur, pid, fd).flags = "none"
                           /\ m1.proctab = proctab
                           /\ NoSocketState(m1, pid, fd)
                      ELSE /\ b.proto = proto
                           /\ \A m3 \in {b.m} \cup OtherCalls(b.m, pid, fd) :
                                 \A r \in procmon_socket_state(m3, pid, fd) :
                                    /\ r.proto = proto
                                    /\ IF ipaddr_is_empty(addr) THEN r.addr = NULL
                                       ELSE r.addr = addr /\ r.port = port
       /\ (proctab_find(Cur, pid) /\ proc_getfd(Cur, pid, fd).flags = "SOCKET") =>
             \A m3 \in OtherCalls(Cur, pid, fd) :
                proctab_find(m3, pid) /\ proc_getfd(m3, pid, fd) = proc_getfd(Cur, pid, fd)
       /\ (~proctab_find(Cur, pid) \/ proc_getfd(Cur, pid, fd).flags # "SOCKET")
             => NoSocketState(Cur, pid, fd)

\* a created and bound socket was asked for its state and gave all three
C20_BoundSocketRead ==
    /\ last.op = "socket_state"
    /\ proctab_find(Cur, last.pid)
    /\ proc_getfd(Cur, last.pid, last.fd).flags = "SOCKET"
    /\ ~ipaddr_is_empty(proc_getfd(Cur, last.pid, last.fd).addr)
    /\ last.out = <<proc_getfd(Cur, last.pid, last.fd).proto,
                    proc_getfd(Cur, last.pid, last.fd).addr,
                    proc_getfd(Cur, last.pid, last.fd).port>>
    /\ last.out[3] # 0

(***************************************************************************)
(* C21: the queue is FIFO and the first match wins.                        *)
(***************************************************************************)
\* the positions of the queue the lookup started on that match the image slot
MatchAt == {k \in 1..Len(last.q0) : last.q0[k].match}

\* the first of a non-empty set of positions
FirstOf(ks) == CHOOSE k \in ks : \A h \in ks : k <= h

\* the positions behind position k that match the interpreter slot
InterpAfter(k) == {h \in (k + 1)..Len(last.q0) : last.q0[h].imatch}

\* C21: entries are examined in the order of their appends; when several
\* queued entries match the exec's key the earliest-appended one is removed
\* and used and the later matching ones stay in the queue; for a SHEBANG
\* image (with argv[0] and argv[1]) the interpreter is the first entry behind
\* the script with the same pid and the basename of argv[0].
C21_FirstMatchWins ==
    (ExecReturned /\ MatchAt # {}) =>
       LET first == FirstOf(MatchAt)
       IN /\ last.hit = last.q0[first].image
          /\ ~InQueue(last.hit)
          /\ \A k \in MatchAt \ {first} : InQueue(last.q0[k].image)
          /\ (last.q0[first].sheb /\ last.argc >= 2) =>
                IF InterpAfter(first) = {} THEN last.pqinterp = NoImage
                ELSE last.pqinterp = last.q0[FirstOf(InterpAfter(first))].image

(***************************************************************************)
(* C23: the TTL of queued entries.                                         *)
(***************************************************************************)
\* C23 as stated: a queued entry that is not matched is evicted no later
\* than the MAXPQTTL-th prepq_lookup performed while it is in the queue,
\* whatever the other lookups match: no entry of the queue has been there
\* for MAXPQTTL lookups.
C23_EvictedWithinLookups ==
    \A k \in 1..Len(pqlist) : pqseen[pqlist[k]] < MAXPQTTL

\* the images the last lookup passed over
SkippedImages == {x.image : x \in last.skipped}

\* C23, amended: a queued entry is evicted no later than the MAXPQTTL-th
\* prepq_lookup that passes over it (examines it without a match): every
\* such lookup adds one to its pqttl and evicts it at MAXPQTTL, while a
\* lookup that ends before it reaches the entry leaves the entry and its
\* pqttl as they were, so that an entry can outlast any number of lookups.
C23_EvictedWithinSkips ==
    /\ \A k \in 1..Len(pqlist) :
          /\ img[pqlist[k]].pqttl < MAXPQTTL
          /\ img[pqlist[k]].pqttl <= pqseen[pqlist[k]]
    /\ ExecReturned =>
          \A k \in 1..Len(last.q0) :
             LET x == last.q0[k]
             IN IF x.image \in SkippedImages
                THEN IF x.pqttl + 1 = MAXPQTTL
                     THEN x.image \in last.dropped /\ ~InQueue(x.image)
                     ELSE /\ x.image \notin last.dropped
                          /\ InQueue(x.image)
                          /\ img[x.image].pqttl = x.pqttl + 1
                ELSE x.image \notin {last.hit, last.pqinterp} =>
                        /\ x.image \notin last.dropped
                        /\ InQueue(x.image)
                        /\ img[x.image].pqttl = x.pqttl

\* an entry is still queued after MAXPQTTL lookups, none of which reached it
C23_OutlastedLookups ==
    /\ ExecReturned
    /\ \E k \in 1..Len(pqlist) :
          pqseen[pqlist[k]] >= MAXPQTTL /\ img[pqlist[k]].pqttl = 0

(***************************************************************************)
(* C28: the counters of the queue.                                         *)
(***************************************************************************)
\* what a procmon_exec that reached prepq_lookup added to pqlookup, pqdrop
\* and pqskip
ExecCounted ==
    /\ pqlookup = last.pqlookup0 + 1
    /\ pqdrop = last.pqdrop0 + Cardinality(last.dropped)
    /\ pqskip = last.pqskip0 + Cardinality(last.skipped)

\* C28 as stated: per procmon_exec pqmiss increases by 1 if the lookup found
\* no image and by 0 if it found one, pqdrop by the number of entries
\* evicted, pqskip by the number of entries passed over, pqlookup by 1.
C28_CountersAsStated ==
    ExecReturned =>
       /\ ExecCounted
       /\ pqmiss = last.pqmiss0 + (IF last.hit = NoImage THEN 1 ELSE 0)

\* C28, amended: pqmiss increases by 1 if the lookup found no image and by
\* 1 more if the image of the exec (queued or fresh) is a script whose
\* interpreter the lookup did not return; pqdrop, pqskip and pqlookup as
\* stated.
C28_CountersExact ==
    ExecReturned =>
       /\ ExecCounted
       /\ pqmiss = last.pqmiss0 + (IF last.hit = NoImage THEN 1 ELSE 0)
                                + (IF last.sheb /\ last.pqinterp = NoImage THEN 1 ELSE 0)
       /\ last.pqinterp # NoImage => last.hit # NoImage

\* an exec that missed twice while its lookup passed over and evicted entries
C28_CountedTwice ==
    /\ ExecReturned
    /\ pqmiss = last.pqmiss0 + 2
    /\ last.dropped # {}
    /\ Cardinality(last.skipped) > Cardinality(last.dropped)

(***************************************************************************)
(* C30: no read of a freed entry.                                          *)
(***************************************************************************)
\* C30: during prepq_lookup, once an entry has been evicted and its image
\* freed, the traversal reads no field of that image any more, the list
\* linkage included; after a matched entry is unlinked the traversal goes on
\* through entries that are still queued (every entry it passed over
\* afterwards was on the queue the lookup started on and was not unlinked
\* before).
C30_NoReadAfterFree ==
    last.looked =>
       /\ last.freedread = {}
       /\ \A x \in last.skipped : \E k \in 1..Len(last.q0) : last.q0[k].image = x.image

(***************************************************************************)
(* C27: image_exec_open falling back to the audit attributes.              *)
(***************************************************************************)
\* the file an audit attr describes: the file that was executed
AttrFile(attr) == CHOOSE f \in {Binary, Script} : f.ino = attr

\* the images image_exec_open is called on: a new image, with or without a path
NewImages == {[FreeImage EXCEPT !.refs = 1, !.path = "/bin/sh",
                                !.flags = IF nopath THEN {"NOPATH", "PIDLOOKUP"} ELSE {}]
              : nopath \in BOOLEAN}

\* a later image_exec_open on e changes nothing
OpenIsNoop(e) ==
    \A f \in AcqFiles, attr \in {NoAttr} \cup Attrs : image_exec_open(e, attr, f) = e

\* C27 as stated: when image_exec_open ends by marking ATTR the stat record
\* equals the audit attr in dev, ino, mode, uid, gid, size, mtime, ctime and
\* btime, STAT and SHEBANG are not set, and a later open is a no-op.
C27_StatIsAttr ==
    /\ \A i \in ImgIds :
          (Live(img, i) /\ "ATTR" \in img[i].flags) =>
             /\ img[i].stat = FileStat(AttrFile(img[i].stat.ino))
             /\ img[i].flags \cap {"STAT", "SHEBANG"} = {}
             /\ OpenIsNoop(img[i])
    /\ last.op = "open" =>
          \A e0 \in NewImages, f \in AcqFiles, attr \in Attrs :
             LET e == image_exec_open(e0, attr, f)
             IN "ATTR" \in e.flags =>
                   /\ e.stat = FileStat(AttrFile(attr))
                   /\ e.flags \cap {"STAT", "SHEBANG"} = {}
                   /\ OpenIsNoop(e)

\* C27, amended: when image_exec_open ends by marking ATTR the stat record
\* equals the audit attr in dev, ino, mode, uid and gid; size, mtime, ctime
\* and btime are not taken from attr: they are what sys_fdattr read from the
\* file on disk when the stat succeeded and are zero otherwise; STAT and
\* SHEBANG are not set and a later open is a no-op.  ATTR is marked exactly
\* when there is an attr and the open or the stat failed or the identity of
\* the file differs from attr.
C27_IdentityIsAttr ==
    /\ \A e0 \in NewImages, f \in AcqFiles, attr \in {NoAttr} \cup Attrs :
          LET e == image_exec_open(e0, attr, f)
              statok == "NOPATH" \notin e0.flags /\ f \notin {NoFile, BadFile}
          IN /\ "ATTR" \in e.flags <=> (attr # NoAttr /\ (~statok \/ f.ino # attr))
             /\ "ATTR" \in e.flags =>
                   /\ e.stat.ino = attr
                   /\ [e.stat EXCEPT !.ino = 0]
                         = [(IF statok THEN FileStat(f) ELSE NoStat) EXCEPT !.ino = 0]
                   /\ e.flags \cap {"STAT", "SHEBANG"} = {}
                   /\ OpenIsNoop(e)
    /\ \A i \in ImgIds :
          (Live(img, i) /\ "ATTR" \in img[i].flags) =>
             /\ img[i].stat.ino \in Attrs
             /\ img[i].flags \cap {"STAT", "SHEBANG"} = {}
             /\ OpenIsNoop(img[i])

\* an image was opened, the file behind its path was not the file of the
\* audit record, and the image keeps the size of the file on disk
C27_FellBackAfterStat ==
    /\ last.op = "open"
    /\ "ATTR" \in img[1].flags
    /\ img[1].stat.ino \in Attrs
    /\ img[1].stat.size = BigBinary.size

(***************************************************************************)
(* C24: pruning and the other holders of a chain.                          *)
(***************************************************************************)
\* C24: image_exec_prune_ancestors clears a prev link only when every image
\* on the chain from the image being processed back to and including the
\* image whose prev link is cleared has reference count 1; hence a run of
\* image_exec_work never shortens the ancestor chain behind the current
\* image of a process other than the image it processes.
C24_PruneSparesOthers ==
    [][last'.op = "work" =>
          /\ \A j \in ImgIds :
                (Live(img', j) /\ img[j].prev # NoImage /\ img'[j].prev = NoImage)
                   => img[j].refs = 1
          /\ \A p \in Pids :
                (proctab[p].present /\ proctab[p].image_exec \notin {NoImage, last'.image})
                   => ChainLen(img', proctab[p].image_exec, MaxImages)
                        = ChainLen(img, proctab[p].image_exec, MaxImages)
      ]_vars

(***************************************************************************)
(* C25: the image graph has no cycle.                                      *)
(***************************************************************************)
\* the images that the prev and script links of the images in S lead to
LinkedFrom(S) ==
    ({img[i].prev : i \in S} \cup {img[i].script : i \in S}) \ {NoImage}

\* the images reached from S over at most fuel further links
RECURSIVE ReachedFrom(_, _)
ReachedFrom(S, fuel) ==
    IF fuel = 0 THEN S ELSE ReachedFrom(S \cup LinkedFrom(S), fuel - 1)

\* C25: in every reachable state, following prev and script links from an
\* image never returns to that image, whatever parent pids the operating
\* system reports during recovery.
C25_NoCycle ==
    \A i \in ImgIds : Live(img, i) => i \notin ReachedFrom(LinkedFrom({i}), MaxImages)

\* the audit thread is inside prepq_lookup's loop
Walking == thr.apc \in {"node", "lock", "unlink", "count", "unlock", "next"}

\* C22 from the moment prepq_lookup starts walking the queue until it
\* returns, no prepq_append of the kernel thread takes effect: the queue the
\* traversal walks changes by the traversal's own removals only
C22_NoAppendWhileWalking ==
    [][Walking => ~(\E i \in ImgIds : pqlist' = Append(pqlist, i))]_vars

\* C29 whenever pqmutex is not held, pqsize is the number of entries linked
\* in the queue, however the steps of prepq_append interleave with those of
\* a lookup that removes entries; pqsize never goes below zero, and it is 0,
\* with an empty queue, after procmon_fini
C29_SizeIsLength ==
    /\ thr.mutex = "free" => pqsize = Len(pqlist)
    /\ pqsize >= 0
    /\ ~config => pqsize = 0 /\ pqlist = <<>>

\* a lookup has removed an entry and an append has taken effect while it
\* was walking; the mutex is free again and entries are left
C29_AppendedAndRemoved ==
    /\ thr.mutex = "free"
    /\ Walking
    /\ thr.grown
    /\ thr.aim # NoImage \/ last.dropped # {}
    /\ pqsize > 0
    /\ pqsize = Len(pqlist)

\* C26 no thread reads or writes an image while another thread writes it,
\* and refs is read only under the image's refsmutex: no unsynchronised
\* access has happened
C26_NoUnsyncAccess == thr.races = {}

\* C31 no image is destroyed while it holds an open file: whenever the last
\* reference of an image is released, by whichever path, its fd is -1
C31_ClosedWhenDestroyed == last.leaked = {}

\* the pids the last recovery was entered for
RecPids == {last.rec[k] : k \in 1..Len(last.rec)}

\* the pids the last recovery has recovered
Recovered == {p \in RecPids : proctab[p].present}

\* C32 recovery terminates under every parent relation: the call returns,
\* procmon_proc_from_pid is entered only for pids that were not in the table
\* when the handler began and for none of them twice (so it recurses into
\* at most as many pids as were absent), and every pid it recovered has its
\* one table entry with an image of its own that was submitted to the
\* workers exactly once; nothing else is submitted
C32_RecoveryTerminates ==
    last.op = "recover" =>
       /\ crashed = "none"
       /\ last.ret \in {"ok", "gone", "loaded"}
       /\ RecPids \subseteq last.absent0
       /\ \A j, k \in 1..Len(last.rec) : last.rec[j] = last.rec[k] => j = k
       /\ Len(last.rec) - 1 <= Cardinality(last.absent0)
       /\ \A p \in Recovered :
             /\ proctab[p].image_exec # NoImage
             /\ img[proctab[p].image_exec].pid = p
             /\ Cardinality({k \in 1..Len(last.sub) :
                               last.sub[k] = proctab[p].image_exec}) = 1
             /\ \A q \in Recovered : proctab[q].image_exec = proctab[p].image_exec => q = p
       /\ Len(last.sub) = Cardinality(Recovered)
       /\ last.ret = "ok" => last.pid \in Recovered

\* two processes report each other as parent and both were recovered by
\* one call
C32_MutualParentsRecovered ==
    /\ last.op = "recover"
    /\ last.ret = "ok"
    /\ \E p, q \in Pids : p # q /\ ostree[p] = {q} /\ ostree[q] = {p}
                          /\ last.rec = <<p, q>> /\ Recovered = {p, q}

====
